---------------------------- MODULE Spec2Model ----------------------------
(***************************************************************************)
(* A model of the propagation network: cells, propagators, the merge       *)
(* algebra and the truth maintenance functions.                            *)
(*                                                                         *)
(* Python values are records tagged by "kind":                             *)
(*   nothing        the NOTHING singleton (nothing.py)                     *)
(*   contradiction  THE_CONTRADICTION (nothing.py)                         *)
(*   num            an int or float                                        *)
(*   interval       interval.Interval; nan = TRUE is the empty interval,   *)
(*                  whose two ends are NaN                                 *)
(*   vs             tms.ValueWithSupport(value, support)                   *)
(*   ld             layers.LayeredDatum(base [, support=...])              *)
(*   tms            tms.TMS(values)                                        *)
(*   list           a Python list (of vs entries)                          *)
(*   error          an exception other than the contradiction ValueError   *)
(*                  leaving the function (exc names its class)             *)
(*                                                                         *)
(* Numbers are counted in units of 0.5e-9, so that the tolerance 1e-9 of   *)
(* the interval merge is 2 units and a difference below the tolerance can  *)
(* be written down.  The values given to cells are multiples of the        *)
(* tolerance.                                                              *)
(***************************************************************************)
EXTENDS Integers, Sequences, FiniteSets, TLC

VARIABLES
    cell_content, \* Cell._content of each cell
    neighbors,    \* Cell._neighbors of each cell: a list of propagators
    ever,         \* propagator._propagators_ever_alerted_list
    worldview,    \* tms._current_worldview
    premises_made,\* the premises make_premise has returned
    raised,       \* how the last call of the public surface ended
    alerts,       \* number of Propagator.alert runs made by the last call
    last,         \* the last call: its name and arguments
    asked,        \* per cell, the scalar last handed to add_content
    wiredEmpty,   \* sum_constraint was built over three empty cells
    mx, my,       \* operands of the merge under test
    mres,         \* its result
    tmsl,         \* a TMS entry list under test
    tpc           \* "merge" / "tms" / "net" / "world" / "adder": the part exercised

vars == <<cell_content, neighbors, ever, worldview, premises_made, raised, alerts, last, asked,
          wiredEmpty, mx, my, mres, tmsl, tpc, premises_made>>

-----------------------------------------------------------------------------
(* Bounds *)

MaxGrid == 4      \* interval ends and scalars of the merge under test: 0..MaxGrid units
MaxNum == 1       \* scalars given to cells: 0..MaxNum times the tolerance
MaxDepth == 12    \* nesting of add_content calls followed before giving up
MaxNest == 12     \* layered data nested within each other: up to MaxNest levels

(* The tolerance of the interval merge, in units of 0.5e-9 *)
Tolerance == 2

Premises == {"P1", "P2"}

-----------------------------------------------------------------------------
(* Values *)

Nothing == [kind |-> "nothing"]
THE_CONTRADICTION == [kind |-> "contradiction"]
Num(n) == [kind |-> "num", v |-> n]
Err(e) == [kind |-> "error", exc |-> e]
EMPTY_INTERVAL == [kind |-> "interval", nan |-> TRUE, low |-> 0, high |-> 0]

\* Interval.__init__: low > high gives the empty interval
Interval(low, high) ==
    IF low > high THEN EMPTY_INTERVAL
    ELSE [kind |-> "interval", nan |-> FALSE, low |-> low, high |-> high]

\* ValueWithSupport.__init__ / supported / supported_value
supported(value, support) == [kind |-> "vs", value |-> value, support |-> support]

\* LayeredDatum.__init__ without and with a support layer
LayeredDatum(base) == [kind |-> "ld", base |-> base, hasSupport |-> FALSE, support |-> {}]
LayeredSupport(base, support) ==
    [kind |-> "ld", base |-> base, hasSupport |-> TRUE, support |-> support]

\* TMS.__init__ / make_tms
make_tms(values) == [kind |-> "tms", values |-> values]
List(items) == [kind |-> "list", items |-> items]

IsError(x) == x.kind = "error"

\* Interval.is_empty
is_empty(i) == i.nan

Abs(n) == IF n < 0 THEN -n ELSE n
Max2(a, b) == IF a >= b THEN a ELSE b
Min2(a, b) == IF a <= b THEN a ELSE b

-----------------------------------------------------------------------------
(* Python's == on the values above *)

RECURSIVE PyEq(_, _)
PyEq(x, y) ==
    CASE x.kind = "nothing" -> y.kind = "nothing"
      [] x.kind = "ld" ->
            IF y.kind = "ld" THEN PyEq(x.base, y.base) ELSE PyEq(x.base, y)
      [] y.kind = "ld" -> PyEq(y.base, x)
      [] y.kind = "nothing" -> FALSE
      [] x.kind = "num" -> y.kind = "num" /\ x.v = y.v
      [] x.kind = "interval" ->
            /\ y.kind = "interval"
            /\ \/ is_empty(x) /\ is_empty(y)
               \/ ~is_empty(x) /\ ~is_empty(y) /\ x.low = y.low /\ x.high = y.high
      [] OTHER -> x = y

\* nothing.contradictory
contradictory(thing) ==
    \/ thing = THE_CONTRADICTION
    \/ thing.kind = "interval" /\ is_empty(thing)

\* Interval.intersect
intersect(i1, i2) ==
    IF is_empty(i1) \/ is_empty(i2) THEN EMPTY_INTERVAL
    ELSE Interval(Max2(i1.low, i2.low), Min2(i1.high, i2.high))


-----------------------------------------------------------------------------
(* tms.py: supports and the worldview *)

\* Support.union
union(s1, s2) == s1 \cup s2

\* Support.is_subset
is_subset(s1, s2) == s1 \subseteq s2

\* merge_supports that forgets the support of the second value
merge_supports_first_only(v_and_s1, v_and_s2) == v_and_s1.support

\* merge.merge_supports
merge_supports(v_and_s1, v_and_s2) == union(v_and_s1.support, v_and_s2.support)

\* more_informative_support with its two arguments taken for each other
more_informative_support_reversed(s1, s2) ==
    is_subset(s2.support, s1.support) /\ Cardinality(s2.support) < Cardinality(s1.support)

\* tms.more_informative_support
more_informative_support(s1, s2) ==
    is_subset(s1.support, s2.support) /\ Cardinality(s1.support) < Cardinality(s2.support)

\* tms.premise_in, for a premise object
premise_in(wv, premise) == premise \in wv

\* tms.all_premises_in
all_premises_in(wv, premise_list) == \A p \in premise_list : premise_in(wv, p)

\* tms.is_v_and_s
is_v_and_s(obj) == obj.kind = "vs"

-----------------------------------------------------------------------------
(* merge.py.  A result is [v |-> the value returned, src |-> which object it  *)
(* is]: "content" or "increment" when the function returns that argument      *)
(* itself, "new" when it returns an object it built.  ValueWithSupport and    *)
(* TMS define no __eq__, so Python compares them by identity and src decides. *)

Ret(v, src) == [v |-> v, src |-> src]

RECURSIVE merge_src(_, _)

\* merge.merge, the value alone
merge(content, increment) == merge_src(content, increment).v

\* tms.implies (generic_operations.implies is the same)
implies(v1, v2) == PyEq(merge(v1, v2), v2)

\* merge.v_and_s_merge, lines 126-148: the choice made from merged_value;
\* first / second name v_and_s1 / v_and_s2
v_and_s_merged(v_and_s1, v_and_s2, merged_value) ==
    IF IsError(merged_value) THEN Ret(merged_value, "new")
    ELSE IF PyEq(merged_value, v_and_s1.value) THEN
        IF implies(v_and_s2.value, merged_value)
              /\ more_informative_support(v_and_s2, v_and_s1)
        THEN Ret(v_and_s2, "second")
        ELSE Ret(v_and_s1, "first")
    ELSE IF PyEq(merged_value, v_and_s2.value) THEN Ret(v_and_s2, "second")
    ELSE Ret(supported(merged_value, merge_supports(v_and_s1, v_and_s2)), "new")

\* merge.v_and_s_merge
v_and_s_merge(v_and_s1, v_and_s2) ==
    v_and_s_merged(v_and_s1, v_and_s2, merge(v_and_s1.value, v_and_s2.value))

\* tms.subsumes
subsumes(vs1, vs2) ==
    implies(vs1.value, vs2.value) /\ is_subset(vs1.support, vs2.support)

\* tms_assimilate_one keeping the values the new one subsumes
tms_assimilate_one_keeps_subsumed(tms, v_and_s) ==
    IF tms.kind # "list" THEN Err("TypeError")
    ELSE IF \E i \in 1..Len(tms.items) : subsumes(tms.items[i], v_and_s) THEN tms
    ELSE List(<<v_and_s>> \o tms.items)

\* tms_assimilate_one without the look for a value that subsumes the new one
tms_assimilate_one_always_adds(tms, v_and_s) ==
    IF tms.kind # "list" THEN Err("TypeError")
    ELSE List(<<v_and_s>> \o SelectSeq(tms.items, LAMBDA old : ~subsumes(v_and_s, old)))

\* tms.tms_assimilate_one: tms is iterated, so it has to be a list
tms_assimilate_one(tms, v_and_s) ==
    IF tms.kind # "list" THEN Err("TypeError")
    ELSE IF \E i \in 1..Len(tms.items) : subsumes(tms.items[i], v_and_s) THEN tms
    ELSE List(<<v_and_s>> \o SelectSeq(tms.items, LAMBDA old : ~subsumes(v_and_s, old)))

RECURSIVE AssimilateAll(_, _)
AssimilateAll(tms, items) ==
    IF items = <<>> \/ IsError(tms) THEN tms
    ELSE AssimilateAll(tms_assimilate_one(tms, Head(items)), Tail(items))

\* tms.tms_assimilate
tms_assimilate(tms, stuff) ==
    CASE stuff.kind = "nothing" -> tms
      [] is_v_and_s(stuff) -> tms_assimilate_one(tms, stuff)
      [] stuff.kind = "list" -> AssimilateAll(tms, stuff.items)
      [] OTHER -> tms

RECURSIVE MergeAll(_, _)
MergeAll(result, items) ==
    IF items = <<>> \/ IsError(result) THEN result
    ELSE MergeAll(merge(result, Head(items)), Tail(items))

\* strongest_consequence that merges every entry, believed or not
strongest_consequence_of_all(wv, tms) ==
    IF tms.kind # "list" THEN Err("TypeError")
    ELSE MergeAll(Nothing, tms.items)

\* tms.strongest_consequence: tms is iterated, so it has to be a list
strongest_consequence(wv, tms) ==
    IF tms.kind # "list" THEN Err("TypeError")
    ELSE MergeAll(Nothing,
                  SelectSeq(tms.items, LAMBDA e : all_premises_in(wv, e.support)))

\* tms.tms_merge
\* tms.tms_merge, line 287: the consequence goes back into the candidate
tms_merge_consequence(candidate, consequence) ==
    IF IsError(consequence) THEN consequence
    ELSE tms_assimilate(candidate, consequence)

\* tms.tms_merge, line 284
tms_merge_candidate(wv, candidate) ==
    IF IsError(candidate) THEN candidate
    ELSE tms_merge_consequence(candidate, strongest_consequence(wv, candidate))

tms_merge(wv, tms1, tms2) == tms_merge_candidate(wv, tms_assimilate(tms1, tms2))

\* a slip: the emptiness of the intersection is not looked at
merge_intervals_unchecked(content, increment) ==
    LET new_interval == intersect(content, increment)
    IN  IF /\ Abs(new_interval.low - content.low) < Tolerance
           /\ Abs(new_interval.high - content.high) < Tolerance
        THEN Ret(content, "content")
        ELSE IF /\ Abs(new_interval.low - increment.low) < Tolerance
                /\ Abs(new_interval.high - increment.high) < Tolerance
             THEN Ret(increment, "increment")
        ELSE Ret(new_interval, "new")

\* merge._merge_dispatch for (Interval, Interval)
merge_intervals(content, increment) ==
    LET new_interval == intersect(content, increment)
    IN  IF is_empty(new_interval) THEN Ret(THE_CONTRADICTION, "new")
        ELSE IF /\ Abs(new_interval.low - content.low) < Tolerance
                /\ Abs(new_interval.high - content.high) < Tolerance
             THEN Ret(content, "content")
        ELSE IF /\ Abs(new_interval.low - increment.low) < Tolerance
                /\ Abs(new_interval.high - increment.high) < Tolerance
             THEN Ret(increment, "increment")
        ELSE Ret(new_interval, "new")

\* a slip: the interval is handed back for a number inside it
merge_interval_number_keeps_interval(interval, number, src) ==
    IF ~is_empty(interval) /\ interval.low <= number.v /\ number.v <= interval.high
    THEN Ret(interval, src)
    ELSE Ret(THE_CONTRADICTION, "new")

\* merge._merge_dispatch for (Interval, number) and (number, Interval);
\* a comparison with NaN is false
merge_interval_number(interval, number, src) ==
    IF ~is_empty(interval) /\ interval.low <= number.v /\ number.v <= interval.high
    THEN Ret(number, src)
    ELSE Ret(THE_CONTRADICTION, "new")

\* v_and_s_merge's result seen from _merge_dispatch: which argument of the
\* dispatch the returned v&s is (a wrapped operand is a new object)
FromVs(r, first, second) ==
    Ret(r.v, CASE r.src = "first" -> first [] r.src = "second" -> second [] OTHER -> "new")

\* merge._merge_dispatch: the handler multipledispatch picks for the two
\* types.  For a TMS and a ValueWithSupport two handlers fit equally; both
\* end in tms_merge on TMS objects, which raises before the worldview is
\* read, so the worldview handed over here is never looked at.
merge_dispatch(content, increment) ==
    LET kc == content.kind
        ki == increment.kind
        as_tms(x) == make_tms(List(<<IF is_v_and_s(x) THEN x ELSE supported(x, {})>>))
    IN  CASE kc = "tms" /\ ki = "tms" -> Ret(tms_merge({}, content, increment), "new")
          [] kc = "tms" -> Ret(tms_merge({}, content, as_tms(increment)), "new")
          [] ki = "tms" -> Ret(tms_merge({}, as_tms(content), increment), "new")
          [] kc = "vs" /\ ki = "vs" ->
                FromVs(v_and_s_merge(content, increment), "content", "increment")
          [] kc = "vs" ->
                FromVs(v_and_s_merge(content, supported(increment, {})), "content", "new")
          [] ki = "vs" ->
                FromVs(v_and_s_merge(supported(content, {}), increment), "new", "increment")
          [] kc = "interval" /\ ki = "interval" -> merge_intervals(content, increment)
          [] kc = "interval" /\ ki = "num" ->
                merge_interval_number(content, increment, "increment")
          [] kc = "num" /\ ki = "interval" ->
                merge_interval_number(increment, content, "content")
          [] OTHER ->
                IF PyEq(content, increment) THEN Ret(content, "content")
                ELSE Ret(THE_CONTRADICTION, "new")

\* a slip: NOTHING goes through the dispatch like any other value
merge_without_nothing_case(content, increment) == merge_dispatch(content, increment)

\* merge.merge
merge_src(content, increment) ==
    IF content.kind = "nothing" \/ increment.kind = "nothing"
    THEN IF content.kind = "nothing" THEN Ret(increment, "increment")
         ELSE Ret(content, "content")
    ELSE merge_dispatch(content, increment)

-----------------------------------------------------------------------------
(* interval.py and generic_operations.py: the arithmetic of the propagators *)

\* interval.to_interval, for a number
to_interval(value) == Interval(value.v, value.v)

\* interval.add_intervals
add_intervals(i1, i2) ==
    IF is_empty(i1) \/ is_empty(i2) THEN EMPTY_INTERVAL
    ELSE Interval(i1.low + i2.low, i1.high + i2.high)

\* interval.sub_intervals
sub_intervals(i1, i2) ==
    IF is_empty(i1) \/ is_empty(i2) THEN EMPTY_INTERVAL
    ELSE Interval(i1.low - i2.high, i1.high - i2.low)

\* 1.0 in the unit of the numbers
One == Tolerance * 1000000000

\* float('inf'): above every number a cell holds here, and far enough from
\* the largest integer for the differences merge computes
Inf == 2100000000

Sign(n) == IF n < 0 THEN -1 ELSE 1

\* x * y for two numbers: exact when one of them is a whole number, else
\* rounded down to the unit
Times(a, b) ==
    Sign(a) * Sign(b) *
        (IF Abs(a) % One = 0 THEN (Abs(a) \div One) * Abs(b)
         ELSE IF Abs(b) % One = 0 THEN Abs(a) * (Abs(b) \div One)
         ELSE (Abs(a) * Abs(b)) \div One)

\* x / y for two numbers, y not 0: exact when y divides x or is a whole
\* number, else rounded down to the unit
Quotient(a, b) ==
    Sign(a) * Sign(b) *
        (IF Abs(a) % Abs(b) = 0 THEN (Abs(a) \div Abs(b)) * One
         ELSE IF Abs(b) % One = 0 THEN Abs(a) \div (Abs(b) \div One)
         ELSE (Abs(a) * One) \div Abs(b))

\* interval.mul_intervals
mul_intervals(i1, i2) ==
    IF is_empty(i1) \/ is_empty(i2) THEN EMPTY_INTERVAL
    ELSE Interval(Min2(Min2(Times(i1.low, i2.low), Times(i1.low, i2.high)),
                       Min2(Times(i1.high, i2.low), Times(i1.high, i2.high))),
                  Max2(Max2(Times(i1.low, i2.low), Times(i1.low, i2.high)),
                       Max2(Times(i1.high, i2.low), Times(i1.high, i2.high))))

\* interval.div_intervals
div_intervals(i1, i2) ==
    IF is_empty(i1) \/ is_empty(i2) THEN EMPTY_INTERVAL
    ELSE IF i2.low <= 0 /\ 0 <= i2.high
         THEN IF i2.low = 0 /\ i2.high = 0 THEN EMPTY_INTERVAL
              ELSE Interval(-Inf, Inf)
    ELSE mul_intervals(i1, Interval(Quotient(One, i2.high), Quotient(One, i2.low)))

\* _add_base answering its first argument for two numbers
add_base_first_argument(x, y) ==
    CASE x.kind = "interval" /\ y.kind = "interval" -> add_intervals(x, y)
      [] x.kind = "num" /\ y.kind = "num" -> x
      [] x.kind = "interval" /\ y.kind = "num" -> add_intervals(x, to_interval(y))
      [] x.kind = "num" /\ y.kind = "interval" -> add_intervals(to_interval(x), y)
      [] OTHER -> Nothing

\* generic_operations._add_base: x + y raises TypeError for every other
\* pair of values, and the default case answers NOTHING
add_base(x, y) ==
    CASE x.kind = "interval" /\ y.kind = "interval" -> add_intervals(x, y)
      [] x.kind = "num" /\ y.kind = "num" -> Num(x.v + y.v)
      [] x.kind = "interval" /\ y.kind = "num" -> add_intervals(x, to_interval(y))
      [] x.kind = "num" /\ y.kind = "interval" -> add_intervals(to_interval(x), y)
      [] OTHER -> Nothing

\* generic_operations._subtract_base
subtract_base(x, y) ==
    CASE x.kind = "interval" /\ y.kind = "interval" -> sub_intervals(x, y)
      [] x.kind = "num" /\ y.kind = "num" -> Num(x.v - y.v)
      [] x.kind = "interval" /\ y.kind = "num" -> sub_intervals(x, to_interval(y))
      [] x.kind = "num" /\ y.kind = "interval" -> sub_intervals(to_interval(x), y)
      [] OTHER -> Nothing

\* generic_operations._multiply_base
multiply_base(x, y) ==
    CASE x.kind = "interval" /\ y.kind = "interval" -> mul_intervals(x, y)
      [] x.kind = "num" /\ y.kind = "num" -> Num(Times(x.v, y.v))
      [] x.kind = "interval" /\ y.kind = "num" -> mul_intervals(x, to_interval(y))
      [] x.kind = "num" /\ y.kind = "interval" -> mul_intervals(to_interval(x), y)
      [] OTHER -> Nothing

\* generic_operations._divide_base
divide_base(x, y) ==
    CASE x.kind = "interval" /\ y.kind = "interval" -> div_intervals(x, y)
      [] x.kind = "num" /\ y.kind = "num" ->
            IF y.v = 0 THEN Nothing ELSE Num(Quotient(x.v, y.v))
      [] x.kind = "interval" /\ y.kind = "num" ->
            IF y.v = 0 THEN Nothing ELSE div_intervals(x, to_interval(y))
      [] x.kind = "num" /\ y.kind = "interval" -> div_intervals(to_interval(x), y)
      [] OTHER -> Nothing

\* the base procedure of generic_add, generic_subtract, generic_multiply and
\* generic_divide
base_procedure(name, x, y) ==
    CASE name = "add" -> add_base(x, y)
      [] name = "subtract" -> subtract_base(x, y)
      [] name = "multiply" -> multiply_base(x, y)
      [] OTHER -> divide_base(x, y)

\* layers.base_layer_value
base_layer_value(obj) == IF obj.kind = "ld" THEN obj.base ELSE obj

\* flatten_layered_datum, _max_depth: the recursion depth allowed
max_depth == 10

\* the outer layers put on the flattened inner datum, the support of the
\* outer datum taking the place of the inner one
flatten_outer_overrides(layered_datum, flattened_inner) ==
    IF layered_datum.hasSupport
    THEN LayeredSupport(base_layer_value(flattened_inner), layered_datum.support)
    ELSE [flattened_inner EXCEPT !.base = base_layer_value(flattened_inner)]

\* layers.flatten_layered_datum, lines 280-308: the layers of the outer datum
\* put on the flattened inner one
flatten_outer(layered_datum, flattened_inner) ==
    IF layered_datum.hasSupport
    THEN LayeredSupport(base_layer_value(flattened_inner),
                        IF flattened_inner.hasSupport
                        THEN union(flattened_inner.support, layered_datum.support)
                        ELSE layered_datum.support)
    ELSE [flattened_inner EXCEPT !.base = base_layer_value(flattened_inner)]

\* layers.flatten_layered_datum
RECURSIVE flatten_layered_datum(_, _)
flatten_layered_datum(layered_datum, depth) ==
    IF layered_datum.kind # "ld" \/ depth >= max_depth THEN layered_datum
    ELSE IF layered_datum.base.kind # "ld" THEN layered_datum
    ELSE flatten_outer(layered_datum,
                       flatten_layered_datum(layered_datum.base, depth + 1))

\* layers.layered_procedure_dispatcher, dispatcher(): the flattened arguments
dispatcher(name, fx, fy) ==
    IF (fx.kind = "ld" /\ fx.hasSupport) \/ (fy.kind = "ld" /\ fy.hasSupport)
    THEN Err("ImportError")
    ELSE LayeredDatum(base_procedure(name, base_layer_value(fx), base_layer_value(fy)))

\* layers.layered_procedure_dispatcher for the four generic operations.
\* An argument with a support layer asks for the support handlers, and
\* importing support_layer_handlers fails: it imports merge_supports from
\* tms, which does not define it.
layered_procedure(name, x, y) ==
    dispatcher(name, flatten_layered_datum(x, 0), flatten_layered_datum(y, 0))

-----------------------------------------------------------------------------
(* cell.py and propagator.py *)

Cells == {"a", "b", "total"}

\* example_networks.sum_constraint: the three propagators it constructs, in
\* order; cells is the list the constructor binds (inputs, then the output).
\* The fourth is propagator_constructors.divider()(a, b, total), which
\* sum_constraint does not construct.  The last three are those of
\* example_networks.product_constraint(a, b, total), in order.
Propagators ==
    <<[f |-> "add", cells |-> <<"a", "b", "total">>],
      [f |-> "subtract", cells |-> <<"total", "a", "b">>],
      [f |-> "subtract", cells |-> <<"total", "b", "a">>],
      [f |-> "divide", cells |-> <<"a", "b", "total">>],
      [f |-> "multiply", cells |-> <<"a", "b", "total">>],
      [f |-> "divide", cells |-> <<"total", "b", "a">>],
      [f |-> "divide", cells |-> <<"total", "a", "b">>]>>

\* the state a call works on: exc is the exception on its way up, "none"
\* when there is none; alerts counts the runs of Propagator.alert, caught
\* the contradictions Propagator.alert has caught and printed
NetState(c, n, e) ==
    [content |-> c, neighbors |-> n, ever |-> e, exc |-> "none", alerts |-> 0, caught |-> 0]

\* add_content without the contradiction check of lines 57-58
add_content_merged_without_check(old_value, merged) ==
    IF IsError(merged.v) THEN [act |-> merged.v.exc, v |-> old_value]
    ELSE IF (IF merged.v.kind \in {"vs", "tms"}
             THEN merged.src = "content"
             ELSE PyEq(merged.v, old_value))
         THEN [act |-> "return", v |-> old_value]
    ELSE [act |-> "store", v |-> merged.v]

\* add_content without the test merged == old_value
add_content_merged_always_stores(old_value, merged) ==
    IF IsError(merged.v) THEN [act |-> merged.v.exc, v |-> old_value]
    ELSE IF contradictory(merged.v) THEN [act |-> "ValueError", v |-> old_value]
    ELSE [act |-> "store", v |-> merged.v]

\* Cell.add_content, lines 57-74, up to the store: what the call does with
\* the merged value.  merged == old_value is decided by identity for a
\* ValueWithSupport or a TMS and by __eq__ otherwise.
add_content_merged(old_value, merged) ==
    IF IsError(merged.v) THEN [act |-> merged.v.exc, v |-> old_value]
    ELSE IF contradictory(merged.v) THEN [act |-> "ValueError", v |-> old_value]
    ELSE IF (IF merged.v.kind \in {"vs", "tms"}
             THEN merged.src = "content"
             ELSE PyEq(merged.v, old_value))
         THEN [act |-> "return", v |-> old_value]
    ELSE [act |-> "store", v |-> merged.v]

\* add_content that stores the increment in place of the content, merging
\* nothing
add_content_decision_overwrites(old_value, increment) ==
    [act |-> "store", v |-> increment]

\* Cell.add_content, lines 49-55: an empty cell takes the increment as it is
add_content_decision(old_value, increment) ==
    IF old_value = Nothing THEN [act |-> "store", v |-> increment]
    ELSE add_content_merged(old_value, merge_src(old_value, increment))

\* propagator.register_alerted_propagator
register_alerted_propagator(st, p) ==
    IF \E i \in 1..Len(st.ever) : st.ever[i] = p THEN st
    ELSE [st EXCEPT !.ever = Append(@, p)]

RECURSIVE add_content(_, _, _, _)
RECURSIVE alert_propagators(_, _, _)

\* operation() that assigns the result to the output cell, with no merge
\* and no alert of the output's neighbors
operation_result_overwrites(st, output, result, depth) ==
    IF IsError(result) THEN [st EXCEPT !.exc = result.exc]
    ELSE IF result = Nothing THEN st
    ELSE [st EXCEPT !.content[output] = result]

\* propagator.function_to_propagator_constructor, operation(): the result of
\* a layered procedure is a LayeredDatum, never the NOTHING object
\* operation(), lines 108-111: what is done with the result
operation_result(st, output, result, depth) ==
    IF IsError(result) THEN [st EXCEPT !.exc = result.exc]
    ELSE IF result = Nothing THEN st
    ELSE add_content(st, output, result, depth)

operation(st, p, depth) ==
    operation_result(st, Propagators[p].cells[3],
                     layered_procedure(Propagators[p].f,
                                       st.content[Propagators[p].cells[1]],
                                       st.content[Propagators[p].cells[2]]),
                     depth)

\* an alert whose except clause catches nothing
except_nothing(r) == r

\* Propagator.alert: a ValueError of the operation ends here
\* Propagator.alert, lines 44-47: the except clause
except_ValueError(r) ==
    IF r.exc = "ValueError" THEN [r EXCEPT !.exc = "none", !.caught = @ + 1] ELSE r

alert(st, p, depth) == except_ValueError(operation([st EXCEPT !.alerts = @ + 1], p, depth))

\* propagator.alert_propagator
alert_propagator(st, p, depth) == alert(register_alerted_propagator(st, p), p, depth)

\* alert_propagators that stops after the first propagator of the list
alert_propagators_first_only(st, propagators, depth) ==
    IF propagators = <<>> \/ st.exc # "none" THEN st
    ELSE alert_propagator(st, Head(propagators), depth)

\* propagator.alert_propagators; an exception ends the loop
alert_propagators(st, propagators, depth) ==
    IF propagators = <<>> \/ st.exc # "none" THEN st
    ELSE alert_propagators(alert_propagator(st, Head(propagators), depth),
                           Tail(propagators), depth)

\* add_content that empties the cell when it raises
add_content_decided_clears(st, cell, d, depth) ==
    CASE d.act = "store" ->
            alert_propagators([st EXCEPT !.content[cell] = d.v],
                              st.neighbors[cell], depth - 1)
      [] d.act = "return" -> st
      [] OTHER -> [st EXCEPT !.exc = d.act, !.content[cell] = Nothing]

\* Cell.add_content: the store and the alert, the return or the raise
add_content_decided(st, cell, d, depth) ==
    CASE d.act = "store" ->
            alert_propagators([st EXCEPT !.content[cell] = d.v],
                              st.neighbors[cell], depth - 1)
      [] d.act = "return" -> st
      [] OTHER -> [st EXCEPT !.exc = d.act]

\* Cell.add_content; depth bounds the nesting of the calls
add_content(st, cell, increment, depth) ==
    IF depth = 0 THEN [st EXCEPT !.exc = "RecursionError"]
    ELSE add_content_decided(st, cell,
                             add_content_decision(st.content[cell], increment), depth)

\* new_neighbor without the look for the propagator in the list
new_neighbor_always_appends(st, cell, p) ==
    [st EXCEPT !.neighbors[cell] = Append(@, p)]

\* Cell.new_neighbor
new_neighbor(st, cell, p) ==
    IF \E i \in 1..Len(st.neighbors[cell]) : st.neighbors[cell][i] = p THEN st
    ELSE [st EXCEPT !.neighbors[cell] = Append(@, p)]

\* a constructor that registers with the bound cells and alerts nothing
construct_without_alert(st, p) ==
    new_neighbor(new_neighbor(new_neighbor(st, Propagators[p].cells[1], p),
                              Propagators[p].cells[2], p),
                 Propagators[p].cells[3], p)

\* Propagator.__init__: register with each bound cell, then alert once
construct(st, p) ==
    alert_propagator(new_neighbor(new_neighbor(new_neighbor(st, Propagators[p].cells[1], p),
                                               Propagators[p].cells[2], p),
                                  Propagators[p].cells[3], p),
                     p, MaxDepth)

\* example_networks.sum_constraint; an exception leaving a constructor ends it
RECURSIVE construct_all(_, _)
construct_all(st, p) ==
    IF p > 3 \/ st.exc # "none" THEN st
    ELSE construct_all(construct(st, p), p + 1)

sum_constraint(st) == construct_all(st, 1)

\* example_networks.product_constraint; an exception leaving a constructor
\* ends it
product_constraint(st) ==
    IF construct(st, 5).exc # "none" THEN construct(st, 5)
    ELSE IF construct(construct(st, 5), 6).exc # "none" THEN construct(construct(st, 5), 6)
    ELSE construct(construct(construct(st, 5), 6), 7)

\* propagator.alert_all_propagators: alert() of every propagator ever alerted,
\* in order, without registering again; an exception ends the loop
RECURSIVE AlertEach(_, _)
AlertEach(st, propagators) ==
    IF propagators = <<>> \/ st.exc # "none" THEN st
    ELSE AlertEach(alert(st, Head(propagators), MaxDepth), Tail(propagators))

\* alert_all_propagators that stops after the first propagator of the list
alert_all_propagators_first_only(st) ==
    IF st.ever = <<>> THEN st ELSE alert(st, Head(st.ever), MaxDepth)

alert_all_propagators(st) == AlertEach(st, st.ever)

\* kick_out that leaves the worldview as it is
kick_out_removes_nothing(wv, premise) == wv

\* propagator_constructors.adder()(a, b, total): the first of the three
\* propagators, on its own
adder(st) == construct(st, 1)

\* propagator_constructors.divider()(a, b, total)
divider(st) == construct(st, 4)

\* tms.kick_out and tms.bring_in of a premise object: the worldview they leave
kick_out(wv, premise) == wv \ {premise}
bring_in(wv, premise) == wv \cup {premise}

\* Premise.name: the string make_premise was given; the tests name the
\* premise p1 "P1".  A name is a str and never equal to a premise object.
name(premise) == <<"str", premise>>

\* tms.premise_in with a str: some believed premise has that name
premise_in_str(wv, n) == \E p \in wv : name(p) = n

\* tms.kick_out with a str: the believed premise found with that name goes
kick_out_str(wv, n) ==
    IF \E p \in wv : name(p) = n
    THEN wv \ {CHOOSE p \in wv : name(p) = n}
    ELSE wv

\* tms.bring_in with a str: there is no registry to find the premise in, so
\* nothing joins the worldview
bring_in_str(wv, n) == wv

\* make_premise whose premise is not put into the worldview
initialize_premise_unbelieved(wv, premise) == wv

\* tms.initialize_premise, called by make_premise
initialize_premise(wv, premise) == wv \cup {premise}

\* tms.tms_query
tms_query(wv, value) ==
    CASE value.kind = "tms" -> strongest_consequence(wv, value.values)
      [] is_v_and_s(value) ->
            IF all_premises_in(wv, value.support) THEN value ELSE Nothing
      [] OTHER -> value

-----------------------------------------------------------------------------
(* The values the operations are exercised on *)

Supports == SUBSET Premises
Unset == [kind |-> "unset"]

\* operands of the merge under test
Grid == 0..MaxGrid
GridNums == {Num(n) : n \in Grid}
GridIntervals == {Interval(lo, hi) : lo \in Grid, hi \in Grid}
BaseValues == GridNums \cup GridIntervals
SupportedValues == {supported(v, s) : v \in BaseValues, s \in Supports}
LayeredValues ==
    {LayeredDatum(v) : v \in BaseValues}
        \cup {LayeredSupport(v, s) : v \in GridNums, s \in Supports}
TmsObjects ==
    {make_tms(List(<<>>))}
        \cup {make_tms(List(<<supported(v, s)>>)) : v \in GridNums, s \in Supports}
MergeOperands ==
    {Nothing} \cup BaseValues \cup SupportedValues \cup LayeredValues \cup TmsObjects

\* a value that is no contradiction: a scalar, a non-empty interval, a
\* supported or layered value over one of these, a TMS
Consistent(x) ==
    CASE x.kind = "num" -> TRUE
      [] x.kind = "interval" -> ~is_empty(x)
      [] x.kind = "vs" -> x.value.kind = "num" \/ (x.value.kind = "interval" /\ ~is_empty(x.value))
      [] x.kind = "ld" -> x.base.kind = "num" \/ (x.base.kind = "interval" /\ ~is_empty(x.base))
      [] x.kind = "tms" -> TRUE
      [] OTHER -> FALSE

\* entries and arguments of the TMS functions: two scalars that contradict
\* each other and an interval that holds both, under every support
TmsValues == {Num(0), Num(Tolerance * MaxNum), Interval(0, Tolerance * MaxNum)}
TmsEntries == {supported(v, s) : v \in TmsValues, s \in Supports}
TmsPairs == {List(<<supported(v1, {"P1"}), supported(v2, {"P2"})>>) : v1 \in TmsValues, v2 \in TmsValues}
TmsLists == {List(<<>>)} \cup {List(<<e>>) : e \in TmsEntries} \cup TmsPairs
TmsStuff == {Nothing, List(<<>>)} \cup TmsEntries \cup TmsPairs

\* values handed to the cells: multiples of the tolerance
NetNums == {Num(Tolerance * k) : k \in 0..MaxNum}
NetIntervals ==
    {Interval(Tolerance * lo, Tolerance * MaxNum) : lo \in 0..(MaxNum - 1)}
        \cup {Interval(Tolerance, 0)}
NetSupported ==
    {supported(Num(Tolerance * MaxNum), {"P1"}), supported(Num(0), {"P2"}),
     supported(Interval(0, Tolerance * MaxNum), {})}
NetInputs == {Nothing} \cup NetNums \cup NetIntervals \cup NetSupported

-----------------------------------------------------------------------------
(* The network: three cells, add_content from outside, sum_constraint *)

NoCall == [op |-> "none", cell |-> "none"]
Call(op, cell) == [op |-> op, cell |-> cell]

TestIdle == mx = Nothing /\ my = Nothing /\ mres = Unset /\ tmsl = List(<<>>)

Init ==
    /\ cell_content = [c \in Cells |-> Nothing]
    /\ neighbors = [c \in Cells |-> <<>>]
    /\ ever = <<>>
    /\ worldview = Premises
    /\ premises_made = Premises
    /\ raised = "none"
    /\ alerts = 0
    /\ last = NoCall
    /\ asked = [c \in Cells |-> Nothing]
    /\ wiredEmpty = FALSE
    /\ tpc = "net"
    /\ TestIdle

\* the effect of a call on the network, from the state it leaves
Leaves(st, call) ==
    /\ cell_content' = st.content
    /\ neighbors' = st.neighbors
    /\ ever' = st.ever
    /\ raised' = st.exc
    /\ alerts' = st.alerts
    /\ last' = call

Now == NetState(cell_content, neighbors, ever)

\* cell.add_content(value), called from outside the network.  asked keeps,
\* for a network wired over empty cells, the first scalar each cell was given.
AddContent(cell, value) ==
    /\ tpc = "net"
    /\ Leaves(add_content(Now, cell, value, MaxDepth), Call("add_content", cell))
    /\ asked' = IF wiredEmpty /\ value.kind = "num" /\ asked[cell] = Nothing
                THEN [asked EXCEPT ![cell] = value]
                ELSE asked
    /\ UNCHANGED <<worldview, wiredEmpty, mx, my, mres, tmsl, tpc, premises_made>>

\* sum_constraint(a, b, total), called once
SumConstraint ==
    /\ tpc = "net"
    /\ ever = <<>>
    /\ Leaves(sum_constraint(Now), Call("sum_constraint", "none"))
    /\ wiredEmpty' = (\A c \in Cells : cell_content[c] = Nothing)
    /\ UNCHANGED <<worldview, asked, mx, my, mres, tmsl, tpc, premises_made>>

Next ==
    \/ \E cell \in Cells, value \in NetInputs : AddContent(cell, value)
    \/ SumConstraint

Spec == Init /\ [][Next]_vars

-----------------------------------------------------------------------------
(* The merge under test: draw two operands, merge them *)

NetIdle ==
    /\ cell_content = [c \in Cells |-> Nothing]
    /\ neighbors = [c \in Cells |-> <<>>]
    /\ ever = <<>>
    /\ raised = "none" /\ alerts = 0 /\ last = NoCall
    /\ asked = [c \in Cells |-> Nothing]
    /\ wiredEmpty = FALSE

InitMerge ==
    /\ NetIdle
    /\ worldview = Premises
    /\ premises_made = Premises
    /\ tpc = "merge"
    /\ mx \in MergeOperands
    /\ my \in MergeOperands
    /\ mres = Unset
    /\ tmsl = List(<<>>)

DoMerge ==
    /\ tpc = "merge"
    /\ mres = Unset
    /\ mres' = merge_src(mx, my)
    /\ UNCHANGED <<cell_content, neighbors, ever, worldview, raised, alerts, last,
                   asked, wiredEmpty, mx, my, tmsl, tpc, premises_made>>

NextMerge == DoMerge

SpecMerge == InitMerge /\ [][NextMerge]_vars

Merged == tpc = "merge" /\ mres # Unset

-----------------------------------------------------------------------------
(* The TMS functions, on the list of entries of a TMS that starts empty *)

InitTms ==
    /\ NetIdle
    /\ worldview = Premises
    /\ premises_made = Premises
    /\ tpc = "tms"
    /\ mx = Nothing /\ my = Nothing /\ mres = Unset
    /\ tmsl = List(<<>>)

\* the list a TMS function returned takes the place of the old one; an
\* exception leaves the old list and is kept in raised
Returns(result) ==
    /\ tmsl' = IF IsError(result) THEN tmsl ELSE result
    /\ raised' = IF IsError(result) THEN result.exc ELSE "none"
    /\ UNCHANGED <<cell_content, neighbors, ever, worldview, alerts,
                   asked, wiredEmpty, mx, my, mres, tpc, premises_made>>

TmsAssimilateOne(v_and_s) ==
    /\ tpc = "tms"
    /\ Returns(tms_assimilate_one(tmsl, v_and_s))
    /\ last' = Call("tms_assimilate_one", "none")

TmsAssimilate(stuff) ==
    /\ tpc = "tms"
    /\ Returns(tms_assimilate(tmsl, stuff))
    /\ last' = Call("tms_assimilate", "none")

TmsMerge(tms2) ==
    /\ tpc = "tms"
    /\ Returns(tms_merge(worldview, tmsl, tms2))
    /\ last' = Call("tms_merge", "none")

\* kick_out(premise) / bring_in(premise): the worldview changes and every
\* propagator ever alerted runs again
KickOut(premise) ==
    /\ tpc = "tms"
    /\ premise \in worldview
    /\ worldview' = kick_out(worldview, premise)
    /\ Leaves(alert_all_propagators(Now), Call("kick_out", "none"))
    /\ UNCHANGED <<asked, wiredEmpty, mx, my, mres, tmsl, tpc, premises_made>>

BringIn(premise) ==
    /\ tpc = "tms"
    /\ premise \notin worldview
    /\ worldview' = bring_in(worldview, premise)
    /\ Leaves(alert_all_propagators(Now), Call("bring_in", "none"))
    /\ UNCHANGED <<asked, wiredEmpty, mx, my, mres, tmsl, tpc, premises_made>>

NextTms ==
    \/ \E v_and_s \in TmsEntries : TmsAssimilateOne(v_and_s)
    \/ \E stuff \in TmsStuff : TmsAssimilate(stuff)
    \/ \E tms2 \in TmsLists : TmsMerge(tms2)
    \/ \E premise \in Premises : KickOut(premise)
    \/ \E premise \in Premises : BringIn(premise)

SpecTms == InitTms /\ [][NextTms]_vars

-----------------------------------------------------------------------------
(* The worldview, as tms_tests.py drives it: premises are made, supported   *)
(* values are given to the cells of a sum constraint, premises are kicked   *)
(* out and brought back, by object or by name.                              *)

WorldInputs ==
    {supported(Num(Tolerance * MaxNum), {p}) : p \in Premises}
        \cup {supported(Num(0), Premises)}

InitWorld ==
    /\ NetIdle
    /\ worldview = {}
    /\ premises_made = {}
    /\ tpc = "world"
    /\ TestIdle

WorldFrame == UNCHANGED <<asked, wiredEmpty, mx, my, mres, tmsl, tpc>>

\* p = make_premise(name)
MakePremise(premise) ==
    /\ tpc = "world"
    /\ premise \notin premises_made
    /\ premises_made' = premises_made \cup {premise}
    /\ worldview' = initialize_premise(worldview, premise)
    /\ last' = Call("make_premise", premise)
    /\ raised' = "none" /\ alerts' = 0
    /\ UNCHANGED <<cell_content, neighbors, ever>>
    /\ WorldFrame

\* cell.add_content(supported_value(v, premises)), the premises made before
WorldAddContent(cell, value) ==
    /\ tpc = "world"
    /\ value.support \subseteq premises_made
    /\ Leaves(add_content(Now, cell, value, MaxDepth), Call("add_content", cell))
    /\ UNCHANGED <<worldview, premises_made>>
    /\ WorldFrame

WorldSumConstraint ==
    /\ tpc = "world"
    /\ ever = <<>>
    /\ Leaves(sum_constraint(Now), Call("sum_constraint", "none"))
    /\ UNCHANGED <<worldview, premises_made>>
    /\ WorldFrame

\* what a worldview call leaves of the network: every propagator ever
\* alerted runs again when the call changes (or may change) the worldview
Realerted(changes) == IF changes THEN alert_all_propagators(Now) ELSE Now

WorldKickOut(premise) ==
    /\ tpc = "world"
    /\ premise \in premises_made
    /\ worldview' = kick_out(worldview, premise)
    /\ Leaves(Realerted(premise \in worldview), Call("kick_out", premise))
    /\ UNCHANGED premises_made
    /\ WorldFrame

WorldKickOutStr(premise) ==
    /\ tpc = "world"
    /\ premise \in premises_made
    /\ worldview' = kick_out_str(worldview, name(premise))
    /\ Leaves(Realerted(premise_in_str(worldview, name(premise))),
              Call("kick_out_str", premise))
    /\ UNCHANGED premises_made
    /\ WorldFrame

WorldBringIn(premise) ==
    /\ tpc = "world"
    /\ premise \in premises_made
    /\ worldview' = IF premise_in(worldview, premise) THEN worldview
                    ELSE bring_in(worldview, premise)
    /\ Leaves(Realerted(~premise_in(worldview, premise)), Call("bring_in", premise))
    /\ UNCHANGED premises_made
    /\ WorldFrame

WorldBringInStr(premise) ==
    /\ tpc = "world"
    /\ premise \in premises_made
    /\ worldview' = IF premise_in_str(worldview, name(premise)) THEN worldview
                    ELSE bring_in_str(worldview, name(premise))
    /\ Leaves(Realerted(~premise_in_str(worldview, name(premise))),
              Call("bring_in_str", premise))
    /\ UNCHANGED premises_made
    /\ WorldFrame

NextWorld ==
    \/ \E premise \in Premises : MakePremise(premise)
    \/ \E cell \in Cells, value \in WorldInputs : WorldAddContent(cell, value)
    \/ WorldSumConstraint
    \/ \E premise \in Premises : WorldKickOut(premise)
    \/ \E premise \in Premises : WorldKickOutStr(premise)
    \/ \E premise \in Premises : WorldBringIn(premise)
    \/ \E premise \in Premises : WorldBringInStr(premise)

SpecWorld == InitWorld /\ [][NextWorld]_vars

-----------------------------------------------------------------------------
(* One adder over the three cells: a one-way network, whose input cells     *)
(* the propagator never writes.                                             *)

AdderInputs == {Nothing} \cup NetNums \cup NetIntervals

InitAdder ==
    /\ NetIdle
    /\ worldview = Premises
    /\ premises_made = Premises
    /\ tpc = "adder"
    /\ TestIdle

AdderFrame ==
    UNCHANGED <<worldview, premises_made, asked, wiredEmpty, mx, my, mres, tmsl, tpc>>

AdderAddContent(cell, value) ==
    /\ tpc = "adder"
    /\ Leaves(add_content(Now, cell, value, MaxDepth), Call("add_content", cell))
    /\ AdderFrame

\* adder()(a, b, total), called once
Adder ==
    /\ tpc = "adder"
    /\ \A c \in Cells : neighbors[c] = <<>>
    /\ Leaves(adder(Now), Call("adder", "none"))
    /\ AdderFrame

NextAdder ==
    \/ \E cell \in Cells, value \in AdderInputs : AdderAddContent(cell, value)
    \/ Adder

SpecAdder == InitAdder /\ [][NextAdder]_vars

-----------------------------------------------------------------------------
(* A divider over three cells: divider()(a, b, total) divides a by b *)

\* what the dividend cell a and the output cell total are given
Dividends == {Nothing, Num(0), Num(2 * Tolerance), Interval(0, 2 * Tolerance)}

\* what the divisor cell b is given: numbers, and intervals that span zero,
\* touch zero, are zero, and lie away from zero
Divisors ==
    {Nothing, Num(0), Num(One), Interval(-2 * Tolerance, 2 * Tolerance),
     Interval(0, 2 * Tolerance), Interval(0, 0), Interval(One, One)}

DivInputs(cell) == IF cell = "b" THEN Divisors ELSE Dividends

InitDivider ==
    /\ NetIdle
    /\ worldview = Premises
    /\ premises_made = Premises
    /\ tpc = "divider"
    /\ TestIdle

DividerFrame ==
    UNCHANGED <<worldview, premises_made, asked, wiredEmpty, mx, my, mres, tmsl, tpc>>

DividerAddContent(cell, value) ==
    /\ tpc = "divider"
    /\ Leaves(add_content(Now, cell, value, MaxDepth), Call("add_content", cell))
    /\ DividerFrame

\* divider()(a, b, total), called once
Divider ==
    /\ tpc = "divider"
    /\ \A c \in Cells : neighbors[c] = <<>>
    /\ Leaves(divider(Now), Call("divider", "none"))
    /\ DividerFrame

NextDivider ==
    \/ \E cell \in Cells : \E value \in DivInputs(cell) : DividerAddContent(cell, value)
    \/ Divider

SpecDivider == InitDivider /\ [][NextDivider]_vars

-----------------------------------------------------------------------------
(* The four generic operations, each applied once to two operands *)

GenericNums == {Num(0), Num(2 * Tolerance)}

\* operands of the generic operation under test: numbers, bare and layered,
\* and numbers with a support, as a layered datum and as a ValueAndSupport
GenericOperands ==
    GenericNums
        \cup {LayeredDatum(v) : v \in GenericNums}
        \cup {LayeredSupport(v, s) : v \in GenericNums, s \in Supports}
        \cup {supported(v, s) : v \in GenericNums, s \in Supports}

GenericNames == {"add", "subtract", "multiply", "divide"}

InitGeneric ==
    /\ NetIdle
    /\ worldview = Premises
    /\ premises_made = Premises
    /\ tpc = "generic"
    /\ mx \in GenericOperands
    /\ my \in GenericOperands
    /\ mres = Unset
    /\ tmsl = List(<<>>)

\* generic_add(mx, my), generic_subtract(mx, my), generic_multiply(mx, my)
\* or generic_divide(mx, my)
DoGeneric(generic_name) ==
    /\ tpc = "generic"
    /\ mres = Unset
    /\ mres' = layered_procedure(generic_name, mx, my)
    /\ last' = Call(generic_name, "none")
    /\ UNCHANGED <<cell_content, neighbors, ever, worldview, raised, alerts,
                   asked, wiredEmpty, mx, my, tmsl, tpc, premises_made>>

NextGeneric == \E generic_name \in GenericNames : DoGeneric(generic_name)

SpecGeneric == InitGeneric /\ [][NextGeneric]_vars

-----------------------------------------------------------------------------
(* Layered data nested level by level, and flatten_layered_datum on them *)

\* the number of LayeredDatum levels of a value
RECURSIVE Levels(_)
Levels(x) == IF x.kind = "ld" THEN 1 + Levels(x.base) ELSE 0

NoLayer == [hasSupport |-> FALSE, support |-> {}]
SupportLayer(s) == [hasSupport |-> TRUE, support |-> s]

Layers == {NoLayer} \cup {SupportLayer(s) : s \in Supports}

\* the layers a new level may carry: none or any support for the two
\* innermost levels, none or one support further out
LayersFor(x) ==
    IF Levels(x) < 2 THEN Layers ELSE {NoLayer, SupportLayer({"P1"})}

\* make_layered_datum(x, layers)
make_layered_datum(x, layers) ==
    [kind |-> "ld", base |-> x, hasSupport |-> layers.hasSupport, support |-> layers.support]

InitFlatten ==
    /\ NetIdle
    /\ worldview = Premises
    /\ premises_made = Premises
    /\ tpc = "flatten"
    /\ mx = Num(0)
    /\ my = Nothing
    /\ mres = Unset
    /\ tmsl = List(<<>>)

FlattenFrame ==
    UNCHANGED <<cell_content, neighbors, ever, worldview, raised, alerts,
                asked, wiredEmpty, my, tmsl, tpc, premises_made>>

\* mx = make_layered_datum(mx, layers): one more level around mx
Nest(layers) ==
    /\ tpc = "flatten"
    /\ mres = Unset
    /\ Levels(mx) < MaxNest
    /\ layers \in LayersFor(mx)
    /\ mx' = make_layered_datum(mx, layers)
    /\ last' = Call("make_layered_datum", "none")
    /\ UNCHANGED mres
    /\ FlattenFrame

\* flatten_layered_datum(mx)
Flatten ==
    /\ tpc = "flatten"
    /\ mres = Unset
    /\ mres' = flatten_layered_datum(mx, 0)
    /\ last' = Call("flatten_layered_datum", "none")
    /\ UNCHANGED mx
    /\ FlattenFrame

NextFlatten ==
    \/ \E layers \in Layers : Nest(layers)
    \/ Flatten

SpecFlatten == InitFlatten /\ [][NextFlatten]_vars

-----------------------------------------------------------------------------
(* An adder and a divider over the same three cells, and new_neighbor      *)
(* called again for a propagator that exists                               *)

\* what the cells are given
NeighborInputs == {Nothing, Num(0), Num(Tolerance)}

\* the adder and the divider
NeighborPropagators == {1, 4}

\* Propagator.__init__ has run for p
Constructed(p) == \E i \in 1..Len(ever) : ever[i] = p

InitNeighbor ==
    /\ NetIdle
    /\ worldview = Premises
    /\ premises_made = Premises
    /\ tpc = "neighbor"
    /\ TestIdle

NeighborFrame ==
    UNCHANGED <<worldview, premises_made, asked, wiredEmpty, mx, my, mres, tmsl, tpc>>

NeighborAddContent(cell, value) ==
    /\ tpc = "neighbor"
    /\ Leaves(add_content(Now, cell, value, MaxDepth), Call("add_content", cell))
    /\ NeighborFrame

\* adder()(a, b, total) or divider()(a, b, total), each called once
NeighborConstruct(p) ==
    /\ tpc = "neighbor"
    /\ ~Constructed(p)
    /\ Leaves(construct(Now, p), Call("construct", "none"))
    /\ NeighborFrame

\* cell.new_neighbor(p) for a propagator p that exists
NewNeighbor(cell, p) ==
    /\ tpc = "neighbor"
    /\ Constructed(p)
    /\ Leaves(new_neighbor(Now, cell, p), Call("new_neighbor", cell))
    /\ NeighborFrame

NextNeighbor ==
    \/ \E cell \in Cells, value \in NeighborInputs : NeighborAddContent(cell, value)
    \/ \E p \in NeighborPropagators : NeighborConstruct(p)
    \/ \E cell \in Cells, p \in NeighborPropagators : NewNeighbor(cell, p)

SpecNeighbor == InitNeighbor /\ [][NextNeighbor]_vars

-----------------------------------------------------------------------------
(* The three propagators of a sum constraint, constructed one by one in any *)
(* order, which is the order of every cell's list of neighbors              *)

\* what the cells are given
OrderInputs == NetNums \cup {Interval(0, Tolerance * MaxNum)}

\* the adder and the two subtractors
SumPropagators == {1, 2, 3}

InitOrder ==
    /\ NetIdle
    /\ worldview = Premises
    /\ premises_made = Premises
    /\ tpc = "order"
    /\ TestIdle

OrderFrame ==
    UNCHANGED <<worldview, premises_made, asked, wiredEmpty, mx, my, mres, tmsl, tpc>>

OrderAddContent(cell, value) ==
    /\ tpc = "order"
    /\ Leaves(add_content(Now, cell, value, MaxDepth), Call("add_content", cell))
    /\ OrderFrame

\* adder()(a, b, total), subtractor()(total, a, b) or
\* subtractor()(total, b, a), each called once
OrderConstruct(p) ==
    /\ tpc = "order"
    /\ ~Constructed(p)
    /\ Leaves(construct(Now, p), Call("construct", "none"))
    /\ OrderFrame

NextOrder ==
    \/ \E cell \in Cells, value \in OrderInputs : OrderAddContent(cell, value)
    \/ \E p \in SumPropagators : OrderConstruct(p)

SpecOrder == InitOrder /\ [][NextOrder]_vars

-----------------------------------------------------------------------------
(* Propagators constructed one by one over cells that are given plain and   *)
(* supported values, with premises kicked out and brought back in between   *)

\* what the cells are given
RefireInputs == {Interval(0, Tolerance * MaxNum)} \cup WorldInputs

\* the adder and the subtractor that writes b; nothing writes a
RefirePropagators == {1, 2}

InitRefire ==
    /\ NetIdle
    /\ worldview = Premises
    /\ premises_made = Premises
    /\ tpc = "refire"
    /\ TestIdle

RefireFrame == UNCHANGED <<premises_made, asked, wiredEmpty, mx, my, mres, tmsl, tpc>>

RefireAddContent(cell, value) ==
    /\ tpc = "refire"
    /\ Leaves(add_content(Now, cell, value, MaxDepth), Call("add_content", cell))
    /\ UNCHANGED worldview
    /\ RefireFrame

\* adder()(a, b, total) or subtractor()(total, a, b), each called once
RefireConstruct(p) ==
    /\ tpc = "refire"
    /\ ~Constructed(p)
    /\ Leaves(construct(Now, p), Call("construct", "none"))
    /\ UNCHANGED worldview
    /\ RefireFrame

\* kick_out(premise) of a believed premise
RefireKickOut(premise) ==
    /\ tpc = "refire"
    /\ premise \in worldview
    /\ worldview' = kick_out(worldview, premise)
    /\ Leaves(alert_all_propagators(Now), Call("kick_out", premise))
    /\ RefireFrame

\* bring_in(premise) of a premise that is not believed
RefireBringIn(premise) ==
    /\ tpc = "refire"
    /\ ~premise_in(worldview, premise)
    /\ worldview' = bring_in(worldview, premise)
    /\ Leaves(alert_all_propagators(Now), Call("bring_in", premise))
    /\ RefireFrame

NextRefire ==
    \/ \E cell \in Cells, value \in RefireInputs : RefireAddContent(cell, value)
    \/ \E p \in RefirePropagators : RefireConstruct(p)
    \/ \E premise \in Premises : RefireKickOut(premise)
    \/ \E premise \in Premises : RefireBringIn(premise)

SpecRefire == InitRefire /\ [][NextRefire]_vars

-----------------------------------------------------------------------------
(* A sum constraint and a product constraint over the same three cells: a   *)
(* network with cycles, whose cells are given numbers only.                 *)

\* what a cell is given: zero or a small number for a and total, zero for b
CycleInputs(cell) == IF cell = "b" THEN {Num(0)} ELSE {Num(0), Num(Tolerance)}

InitCycle ==
    /\ NetIdle
    /\ worldview = Premises
    /\ premises_made = Premises
    /\ tpc = "cycle"
    /\ TestIdle

CycleAddContent(cell, value) ==
    /\ tpc = "cycle"
    /\ Leaves(add_content(Now, cell, value, MaxDepth), Call("add_content", cell))
    /\ OrderFrame

\* sum_constraint(a, b, total), called once
CycleSumConstraint ==
    /\ tpc = "cycle"
    /\ ~Constructed(1)
    /\ Leaves(sum_constraint(Now), Call("sum_constraint", "none"))
    /\ OrderFrame

\* product_constraint(a, b, total), called once
CycleProductConstraint ==
    /\ tpc = "cycle"
    /\ ~Constructed(5)
    /\ Leaves(product_constraint(Now), Call("product_constraint", "none"))
    /\ OrderFrame

NextCycle ==
    \/ \E cell \in Cells : \E value \in CycleInputs(cell) : CycleAddContent(cell, value)
    \/ CycleSumConstraint
    \/ CycleProductConstraint

SpecCycle == InitCycle /\ [][NextCycle]_vars

-----------------------------------------------------------------------------
(* Claims about merge, under SpecMerge *)

BothIntervals ==
    /\ mx.kind = "interval" /\ ~is_empty(mx)
    /\ my.kind = "interval" /\ ~is_empty(my)

MeetLow == Max2(mx.low, my.low)
MeetHigh == Min2(mx.high, my.high)
Near(i, low, high) == Abs(low - i.low) < Tolerance /\ Abs(high - i.high) < Tolerance

\* C6: Nothing is the identity of merge.  With Nothing as one operand, merge
\* returns the other operand itself, whatever its kind, and never the
\* Contradiction or an error.
C6_NothingIsIdentity ==
    Merged =>
        /\ mx = Nothing => mres = Ret(my, "increment")
        /\ (my = Nothing /\ mx # Nothing) => mres = Ret(mx, "content")
        /\ (mx = Nothing \/ my = Nothing) =>
                mres.v # THE_CONTRADICTION /\ ~IsError(mres.v)

C6_Witness ==
    /\ Merged
    /\ my = Nothing
    /\ mx.kind = "vs" /\ mx.support = Premises
    /\ mres.v = mx

\* C7: merge is idempotent.  For every consistent value x (scalar, non-empty
\* interval, supported value, layered value, TMS) merge(x, x) returns x, not
\* a contradiction and not an error.
C7_MergeIdempotent ==
    (Merged /\ mx = my /\ Consistent(mx)) => mres = Ret(mx, "content")

\* C8 as stated: the merge of two non-empty intervals is exactly
\* [max(a,c), min(b,d)] when that is non-empty and the Contradiction
\* otherwise; an operand equal to the intersection is returned itself.
C8_ExactIntersection ==
    (Merged /\ BothIntervals) =>
        IF MeetLow <= MeetHigh
        THEN /\ mres.v = Interval(MeetLow, MeetHigh)
             /\ mx = mres.v => mres.src = "content"
             /\ (my = mres.v /\ mx # mres.v) => mres.src = "increment"
        ELSE mres.v = THE_CONTRADICTION

\* C8 amended: the merge of two non-empty intervals is the Contradiction when
\* max(a,c) > min(b,d); otherwise the first operand itself when both ends of
\* [max(a,c), min(b,d)] are within the tolerance of its ends, else the second
\* operand itself when they are within the tolerance of its ends, else the
\* interval [max(a,c), min(b,d)].
C8_IntersectionWithinTolerance ==
    (Merged /\ BothIntervals) =>
        IF MeetLow > MeetHigh THEN mres.v = THE_CONTRADICTION
        ELSE IF Near(mx, MeetLow, MeetHigh) THEN mres = Ret(mx, "content")
        ELSE IF Near(my, MeetLow, MeetHigh) THEN mres = Ret(my, "increment")
        ELSE mres = Ret(Interval(MeetLow, MeetHigh), "new")

C8_Witness ==
    /\ Merged /\ BothIntervals
    /\ MeetLow <= MeetHigh
    /\ mres = Ret(mx, "content")
    /\ mx # Interval(MeetLow, MeetHigh)

\* C9: an interval merged with a scalar, in either order, gives the scalar
\* when it lies in the interval and the Contradiction otherwise, never the
\* interval.
C9_IntervalWithScalar ==
    (Merged /\ {mx.kind, my.kind} = {"interval", "num"}) =>
        LET i == IF mx.kind = "interval" THEN mx ELSE my
            s == IF mx.kind = "num" THEN mx ELSE my
        IN  /\ mres.v.kind # "interval"
            /\ IF ~is_empty(i) /\ i.low <= s.v /\ s.v <= i.high
               THEN mres.v = s
               ELSE mres.v = THE_CONTRADICTION

C9_Witness ==
    /\ Merged
    /\ mx.kind = "num" /\ my.kind = "interval"
    /\ mres = Ret(mx, "content")

-----------------------------------------------------------------------------
(* Claims about the cells and the sum network, under Spec *)

Wired == ever # <<>>
Scalar(x) == x.kind = "num"
ScalarOf(x) == IF x.kind = "ld" THEN x.base ELSE x

\* C1: add_content(v) on a cell whose content c is not Nothing, when
\* merge(c, v) is a contradiction: the call raises the contradiction error to
\* its caller, every content (that of the cell included) is as before, and
\* no propagator is alerted by the call.
C1_ContradictionRaises ==
    tpc = "net" =>
        \A c \in Cells, v \in NetInputs :
            (cell_content[c] # Nothing /\ contradictory(merge(cell_content[c], v))) =>
                LET r == add_content(Now, c, v, MaxDepth)
                IN  /\ r.exc = "ValueError"
                    /\ r.content = cell_content
                    /\ r.alerts = 0

C1_Witness ==
    /\ last.op = "add_content"
    /\ raised = "ValueError"
    /\ alerts = 0
    /\ cell_content[last.cell] # Nothing
    /\ neighbors[last.cell] # <<>>

\* C2: in a wired sum network whose a and b hold scalars and whose total
\* holds a scalar derived by the adder, total holds a + b, and add_content(total, v)
\* with a scalar v other than a + b raises the contradiction error and
\* leaves the contents of a, b and total as they were.
C2_SumRejectsOtherTotal ==
    (/\ tpc = "net" /\ Wired
     /\ Scalar(cell_content["a"]) /\ Scalar(cell_content["b"])
     /\ cell_content["total"].kind = "ld" /\ Scalar(cell_content["total"].base)) =>
        LET sum == cell_content["a"].v + cell_content["b"].v
        IN  /\ cell_content["total"] = LayeredDatum(Num(sum))
            /\ \A v \in NetNums \cup {Num(sum + Tolerance)} :
                    v.v # sum =>
                        LET r == add_content(Now, "total", v, MaxDepth)
                        IN  r.exc = "ValueError" /\ r.content = cell_content

C2_Witness ==
    /\ last = Call("add_content", "total")
    /\ raised = "ValueError"
    /\ Wired
    /\ Scalar(cell_content["a"]) /\ Scalar(cell_content["b"])
    /\ cell_content["a"].v > 0 /\ cell_content["b"].v > 0
    /\ cell_content["total"] = LayeredDatum(Num(cell_content["a"].v + cell_content["b"].v))

\* C3: a sum constraint wired over three empty cells: once two of the cells
\* have been given scalars by add_content (and the third none), the third
\* cell holds the scalar that satisfies total = a + b.
C3_SumSolvesThird ==
    wiredEmpty =>
        /\ (Scalar(asked["a"]) /\ Scalar(asked["b"]) /\ asked["total"] = Nothing) =>
                ScalarOf(cell_content["total"]) = Num(asked["a"].v + asked["b"].v)
        /\ (Scalar(asked["total"]) /\ Scalar(asked["a"]) /\ asked["b"] = Nothing) =>
                ScalarOf(cell_content["b"]) = Num(asked["total"].v - asked["a"].v)
        /\ (Scalar(asked["total"]) /\ Scalar(asked["b"]) /\ asked["a"] = Nothing) =>
                ScalarOf(cell_content["a"]) = Num(asked["total"].v - asked["b"].v)

\* C4: a cell's content never loses information.  Whenever the content of a
\* cell changes from old to new, merging old into new gives new again, and
\* new is not Nothing.
AtLeastAsSpecific(new, old) == merge(new, old) = new

C4_ContentNeverLosesInformation ==
    [][\A c \in Cells :
          cell_content'[c] # cell_content[c] =>
              /\ cell_content'[c] # Nothing
              /\ AtLeastAsSpecific(cell_content'[c], cell_content[c])]_vars

\* C5: no cell's content is contradictory: not the Contradiction, not an
\* empty interval, not a supported value or layered datum whose base value
\* is the Contradiction; the first write into an empty cell included.
ContradictoryContent(x) ==
    \/ x = THE_CONTRADICTION
    \/ x.kind = "interval" /\ is_empty(x)
    \/ x.kind = "vs" /\ x.value = THE_CONTRADICTION
    \/ x.kind = "ld" /\ x.base = THE_CONTRADICTION

C5_NoContradictoryContent ==
    \A c \in Cells : ~ContradictoryContent(cell_content[c])

-----------------------------------------------------------------------------
(* Claims about the TMS functions, under SpecTms *)

\* C10: starting from an empty TMS, after any sequence of tms_assimilate_one,
\* tms_assimilate and tms_merge the entries form an antichain: no entry
\* subsumes another entry of the list.
C10_TmsIsAntichain ==
    tpc = "tms" =>
        /\ raised = "none"
        /\ \A i, j \in 1..Len(tmsl.items) :
                i # j => ~subsumes(tmsl.items[i], tmsl.items[j])

C10_Witness ==
    /\ tpc = "tms"
    /\ last.op = "tms_merge"
    /\ Len(tmsl.items) >= 3
    /\ \E i \in 1..Len(tmsl.items) : tmsl.items[i].support = Premises

\* C11: assimilating an entry that some entry of the TMS subsumes leaves the
\* entries exactly as they are; assimilating an entry a second time gives
\* the entries the first time gave.
Subsumed(tms, e) == \E i \in 1..Len(tms.items) : subsumes(tms.items[i], e)

C11_AssimilateSubsumedIsNoOp ==
    tpc = "tms" =>
        \A e \in TmsEntries :
            /\ Subsumed(tmsl, e) => tms_assimilate_one(tmsl, e) = tmsl
            /\ tms_assimilate_one(tms_assimilate_one(tmsl, e), e)
                    = tms_assimilate_one(tmsl, e)

C11_Witness ==
    /\ tpc = "tms"
    /\ last.op = "tms_assimilate_one"
    /\ Len(tmsl.items) >= 2
    /\ \E e \in TmsEntries :
            /\ Subsumed(tmsl, e)
            /\ \A i \in 1..Len(tmsl.items) : tmsl.items[i] # e
            /\ tms_assimilate_one(tmsl, e) = tmsl

-----------------------------------------------------------------------------
(* Claims about supported values and the worldview, under SpecWorld *)

\* a content with base n supported by exactly the premises of S
SupportedScalar(c, n, S) ==
    \/ c.kind = "vs" /\ ScalarOf(c.value) = Num(n) /\ c.support = S
    \/ c.kind = "ld" /\ c.hasSupport /\ c.base = Num(n) /\ c.support = S

Fresh == \A c \in Cells : cell_content[c] \in {Nothing, LayeredDatum(Nothing)}

\* a gets va and b gets vb, in a network wired before or after
SumOf(va, vb) ==
    IF Wired
    THEN add_content(add_content(Now, "a", va, MaxDepth), "b", vb, MaxDepth)
    ELSE sum_constraint(add_content(add_content(Now, "a", va, MaxDepth), "b", vb, MaxDepth))

\* C12: the cells of a sum constraint hold nothing yet; a gets x supported
\* by S1 and b gets y supported by S2, x and y not zero: total then holds
\* x + y supported by exactly S1 union S2.
C12_SumOfSupportedValues ==
    (tpc = "world" /\ Fresh) =>
        \A va, vb \in WorldInputs :
            (/\ va.support \cup vb.support \subseteq premises_made
             /\ va.value.v # 0 /\ vb.value.v # 0) =>
                SupportedScalar(SumOf(va, vb).content["total"],
                                va.value.v + vb.value.v,
                                va.support \cup vb.support)

SupportedBy(c, premise) == c.kind = "vs" /\ premise \in c.support

\* what tms_query answers for the content a kick_out leaves in a cell,
\* against what it answered for the content the cell held before
KickOutAnswers(wv, premise, before, after) ==
    /\ SupportedBy(after, premise) => tms_query(wv, after) = Nothing
    /\ ~SupportedBy(before, premise) => tms_query(wv, after) = tms_query(worldview, before)

RoundTrip(wv, premise) ==
    IF premise_in(kick_out(wv, premise), premise)
    THEN kick_out(wv, premise)
    ELSE bring_in(kick_out(wv, premise), premise)

RoundTripStr(wv, n) ==
    IF premise_in_str(kick_out_str(wv, n), n)
    THEN kick_out_str(wv, n)
    ELSE bring_in_str(kick_out_str(wv, n), n)

\* the network after the two calls: the propagators ever alerted ran twice
Realerted2 == alert_all_propagators(alert_all_propagators(Now))

SameAnswers(wv) ==
    \A c \in Cells :
        tms_query(wv, Realerted2.content[c]) = tms_query(worldview, cell_content[c])

RoundTripByObject ==
    tpc = "world" =>
        \A premise \in worldview :
            /\ premise_in(RoundTrip(worldview, premise), premise)
            /\ SameAnswers(RoundTrip(worldview, premise))

\* C14: kick_out(P) and then bring_in(P) of a believed premise P, given as
\* the object or by its name: premise_in(P) is true again and tms_query of
\* every cell answers what it answered before the kick_out.
C14_KickOutBringInRoundTrip ==
    tpc = "world" =>
        \A premise \in worldview :
            /\ premise_in(RoundTrip(worldview, premise), premise)
            /\ SameAnswers(RoundTrip(worldview, premise))
            /\ premise_in_str(RoundTripStr(worldview, name(premise)), name(premise))
            /\ SameAnswers(RoundTripStr(worldview, name(premise)))

\* C15: add_content of a supported scalar into a cell that holds a supported
\* scalar of another value raises the contradiction error to the caller
\* and leaves every content as it was.
C15_SupportedContradictionRaises ==
    tpc = "world" =>
        \A c \in Cells, v \in WorldInputs :
            (/\ v.support \subseteq premises_made
             /\ cell_content[c].kind = "vs"
             /\ Scalar(cell_content[c].value)
             /\ cell_content[c].value # v.value) =>
                /\ add_content(Now, c, v, MaxDepth).exc = "ValueError"
                /\ add_content(Now, c, v, MaxDepth).content = cell_content

Believed(wv, premise) == premise_in(wv, premise) /\ premise_in_str(wv, name(premise))

KicksOut(call, premise) == call.op \in {"kick_out", "kick_out_str"} /\ call.cell = premise

\* C16: the premise make_premise returns is believed: premise_in is true for
\* the object and for its name when the call returns, and stays true
\* through every call that is not a kick_out of that premise.
C16_PremiseBelievedUntilKickedOut ==
    [][tpc = "world" =>
        \A premise \in Premises :
            /\ (premise \notin premises_made /\ premise \in premises_made') =>
                    Believed(worldview', premise)
            /\ (Believed(worldview, premise) /\ ~KicksOut(last', premise)) =>
                    Believed(worldview', premise)]_vars

C16_Witness ==
    /\ tpc = "world"
    /\ \E premise \in premises_made :
            /\ Believed(worldview, premise)
            /\ \E other \in premises_made \ {premise} :
                    KicksOut(last, other) /\ ~premise_in(worldview, other)
    /\ \E c \in Cells : cell_content[c] # Nothing

-----------------------------------------------------------------------------
(* Claims about add_content and construction, under SpecAdder and Spec *)

\* C17: add_content(Nothing) on any cell, empty or not: every content is as
\* before and the call alerts no propagator.
C17_AddNothingIsNoOp ==
    tpc = "adder" =>
        \A c \in Cells :
            /\ add_content(Now, c, Nothing, MaxDepth).content = cell_content
            /\ add_content(Now, c, Nothing, MaxDepth).alerts = 0

IsNeighbor(st, cell, p) == \E i \in 1..Len(st.neighbors[cell]) : st.neighbors[cell][i] = p

Unbuilt == \A c \in Cells : neighbors[c] = <<>>

\* C20: constructing the adder registers it as a neighbor of each of its
\* three cells and runs it before the constructor returns: an empty total
\* then holds what the addition gives for the contents of a and b, a + b
\* when both are scalars.
C20_ConstructorRunsPropagator ==
    tpc = "adder" =>
        /\ Unbuilt =>
                /\ \A c \in Cells : IsNeighbor(adder(Now), c, 1)
                /\ adder(Now).alerts >= 1
                /\ cell_content["total"] = Nothing =>
                        adder(Now).content["total"]
                            = layered_procedure("add", cell_content["a"], cell_content["b"])
                /\ (/\ cell_content["total"] = Nothing
                    /\ Scalar(cell_content["a"]) /\ Scalar(cell_content["b"])) =>
                        adder(Now).content["total"]
                            = LayeredDatum(Num(cell_content["a"].v + cell_content["b"].v))
        /\ last.op = "adder" =>
                /\ \A c \in Cells : IsNeighbor(Now, c, 1)
                /\ alerts >= 1
                /\ cell_content["total"] # Nothing

C20_Witness ==
    /\ tpc = "adder"
    /\ last.op = "adder"
    /\ Scalar(cell_content["a"]) /\ Scalar(cell_content["b"])
    /\ cell_content["a"].v > 0 /\ cell_content["b"].v > 0
    /\ cell_content["total"]
            = LayeredDatum(Num(cell_content["a"].v + cell_content["b"].v))
    /\ \A c \in Cells : IsNeighbor(Now, c, 1)

-----------------------------------------------------------------------------
(* Claims about add_content in the sum network, under Spec *)

\* merge hands back the very object the cell holds
ReturnsContent(c, v) == merge_src(cell_content[c], v).src = "content"

\* the call r of add_content on cell c left everything as it was and
\* alerted nothing
NoOp(c, r) ==
    /\ r.content = cell_content
    /\ r.alerts = 0
    /\ contradictory(cell_content[c]) \/ r.exc = "none"

\* the call r of add_content on cell c stored merged and alerted the neighbors
StoresMerged(c, merged, decision, r) ==
    /\ merged # cell_content[c]
    /\ decision = [act |-> "store", v |-> merged]
    /\ r.alerts >= Len(neighbors[c])
    /\ neighbors[c] # <<>> => r.alerts > 0

RanDuring(c, v) == add_content([Now EXCEPT !.ever = <<>>], c, v, MaxDepth).ever

\* C19: when add_content stores a new content in a cell, the call returns
\* after every neighbor of the cell has been alerted and has run.
C19_StoreAlertsEveryNeighbor ==
    tpc = "net" =>
        \A c \in Cells, v \in NetInputs :
            add_content_decision(cell_content[c], v).act = "store" =>
                LET r == add_content(Now, c, v, MaxDepth)
                    ran == RanDuring(c, v)
                IN  /\ r.exc = "none"
                    /\ r.alerts >= Len(neighbors[c])
                    /\ \A i \in 1..Len(neighbors[c]) :
                            \E j \in 1..Len(ran) : ran[j] = neighbors[c][i]

C19_Witness ==
    /\ tpc = "net"
    /\ last.op = "add_content"
    /\ Len(neighbors[last.cell]) = 3
    /\ raised = "none"
    /\ alerts >= 3
    /\ cell_content[last.cell].kind = "num"

\* the adder fires: at its construction, or alerted once it is built
Fired == IF Unbuilt THEN adder(Now) ELSE alert(Now, 1, MaxDepth)

\* C21: a firing of the adder while a or b holds Nothing writes nothing: the
\* content of total is what it was before (an empty total stays Nothing).
C21_NothingInputWritesNothing ==
    tpc = "adder" =>
        ((cell_content["a"] = Nothing \/ cell_content["b"] = Nothing) =>
            Fired.content["total"] = cell_content["total"])

-----------------------------------------------------------------------------
(* Claims about failures inside a cascade, under Spec *)

\* the network right after add_content has stored value in cell c
Stored(c, value) == [Now EXCEPT !.content[c] = value]

\* the computation of the first neighbor of cell c, run right after the
\* store, ends with the contradiction error
FirstNeighborFails(c, value) ==
    /\ neighbors[c] # <<>>
    /\ operation(Stored(c, value), Head(neighbors[c]), MaxDepth - 1).exc = "ValueError"

\* C22: add_content stores a new content and the computation of the first
\* neighbor alerted fails with a contradiction on writing its output: the
\* add_content call returns without an exception and every neighbor of the
\* cell, the ones after the failing one included, has run.
C22_FailureStaysInsidePropagator ==
    tpc = "net" =>
        \A c \in Cells, v \in NetInputs :
            (/\ add_content_decision(cell_content[c], v).act = "store"
             /\ FirstNeighborFails(c, add_content_decision(cell_content[c], v).v)) =>
                LET r == add_content(Now, c, v, MaxDepth)
                    ran == RanDuring(c, v)
                IN  /\ r.exc = "none"
                    /\ r.alerts >= Len(neighbors[c])
                    /\ \A i \in 1..Len(neighbors[c]) :
                            \E j \in 1..Len(ran) : ran[j] = neighbors[c][i]

\* the last call stored a content in a wired cell and returned, and the
\* first neighbor of the cell still cannot write its output
C22_Witness ==
    /\ tpc = "net"
    /\ last.op = "add_content"
    /\ Len(neighbors[last.cell]) = 3
    /\ raised = "none"
    /\ alerts >= 3
    /\ operation(Now, Head(neighbors[last.cell]), MaxDepth).exc = "ValueError"

-----------------------------------------------------------------------------
(* Claims about the re-evaluation after a change of the worldview, under    *)
(* SpecWorld                                                                *)

\* Propagator.alert of the propagators ever alerted, one after the other
InTurn ==
    CASE Len(ever) = 0 -> Now
      [] Len(ever) = 1 -> alert(Now, ever[1], MaxDepth)
      [] Len(ever) = 2 -> alert(alert(Now, ever[1], MaxDepth), ever[2], MaxDepth)
      [] OTHER -> alert(alert(alert(Now, ever[1], MaxDepth), ever[2], MaxDepth),
                        ever[3], MaxDepth)

\* the call that left r ran every propagator ever alerted and returned
RunsEvery(r) ==
    /\ r.exc = "none"
    /\ r.alerts >= Len(ever)
    /\ r = InTurn

EverAlerted(p) == \E i \in 1..Len(ever) : ever[i] = p

\* C24: a kick_out of a believed premise (by object or by name) and a
\* bring_in of a disbelieved premise run, before they return, the
\* computation of every propagator ever alerted, and every propagator
\* constructed is among those.
C24_WorldviewChangeRunsEveryPropagator ==
    tpc = "world" =>
        /\ \A premise \in premises_made :
                /\ premise \in worldview =>
                        /\ RunsEvery(Realerted(premise \in worldview))
                        /\ RunsEvery(Realerted(premise_in_str(worldview, name(premise))))
                /\ premise \notin worldview =>
                        RunsEvery(Realerted(~premise_in(worldview, premise)))
        /\ \A c \in Cells : \A i \in 1..Len(neighbors[c]) : EverAlerted(neighbors[c][i])
        /\ Len(ever) <= 3

C24_Witness ==
    /\ tpc = "world"
    /\ last.op \in {"kick_out", "kick_out_str", "bring_in"}
    /\ Len(ever) = 3
    /\ alerts >= 3
    /\ raised = "none"
    /\ \E c \in Cells : cell_content[c].kind = "vs"

-----------------------------------------------------------------------------
(* Claims about the merge of supported values, under SpecMerge *)

BothSupported == mx.kind = "vs" /\ my.kind = "vs"

\* what merge gives for the two base values
MergedBase == merge(mx.value, my.value)

\* r says at least what v says: r is a contradiction, or r lies within v,
\* each end of an interval at most slack outside
Within(r, v, slack) ==
    CASE contradictory(r) -> TRUE
      [] contradictory(v) -> FALSE
      [] r.kind = "num" /\ v.kind = "num" -> r.v = v.v
      [] r.kind = "num" /\ v.kind = "interval" -> v.low <= r.v /\ r.v <= v.high
      [] r.kind = "interval" /\ v.kind = "interval" ->
            v.low - slack <= r.low /\ r.high <= v.high + slack
      [] r.kind = "interval" /\ v.kind = "num" ->
            v.v - slack <= r.low /\ r.high <= v.v + slack
      [] OTHER -> FALSE

\* r and m say the same, up to slack: the same value, two contradictions, or
\* each within the other (a scalar and the interval that holds it alone)
SameValue(r, m, slack) ==
    \/ r = m
    \/ contradictory(r) /\ contradictory(m)
    \/ /\ ~contradictory(r) /\ ~contradictory(m)
       /\ Within(r, m, slack) /\ Within(m, r, slack)

\* C25: the merge of two supported values has the merge of the two base
\* values as its base value, and that base value is never less specific than
\* the base value of either operand, up to the tolerance of the interval
\* merge.
C25_BaseIsMergeOfBases ==
    (Merged /\ BothSupported) =>
        /\ mres.v.kind = "vs"
        /\ SameValue(mres.v.value, MergedBase, Tolerance - 1)
        /\ Within(mres.v.value, mx.value, Tolerance - 1)
        /\ Within(mres.v.value, my.value, Tolerance - 1)

\* C26: the merge of two supported values with the same consistent base
\* value keeps the base value; its support is the support of the second
\* value when that is a proper subset of the first one's, else the support
\* of the first (old) value, and so never a strict superset of the old one.
C26_ConfirmKeepsSmallerSupport ==
    (Merged /\ BothSupported /\ Consistent(mx) /\ PyEq(mx.value, my.value)) =>
        /\ mres.v.kind = "vs"
        /\ mres.v.value = mx.value
        /\ mres.v.support
                = IF my.support \subseteq mx.support /\ my.support # mx.support
                  THEN my.support ELSE mx.support
        /\ ~(mx.support \subseteq mres.v.support /\ mres.v.support # mx.support)

C26_Witness ==
    /\ Merged /\ BothSupported /\ Consistent(mx)
    /\ mx.value = my.value
    /\ mx.support = Premises
    /\ Cardinality(my.support) = 1
    /\ mres.v = my

\* C27: when the base values of two supported values merge to a value that
\* is neither of them, their merge is that value supported by exactly the
\* union of the two supports.
C27_CombineUnitesSupports ==
    (/\ Merged /\ BothSupported
     /\ ~IsError(MergedBase)
     /\ ~PyEq(MergedBase, mx.value) /\ ~PyEq(MergedBase, my.value)) =>
        mres.v = supported(MergedBase, mx.support \cup my.support)

\* two overlapping intervals, neither within the other
C27_Witness ==
    /\ Merged /\ BothSupported
    /\ mx.value.kind = "interval" /\ my.value.kind = "interval"
    /\ mres.v.value.kind = "interval" /\ ~contradictory(mres.v.value)
    /\ mres.v.value # mx.value /\ mres.v.value # my.value
    /\ mx.support = {"P1"} /\ my.support = {"P2"}
    /\ mres.v.support = Premises
-----------------------------------------------------------------------------
(* Claims about division, under SpecDivider *)

SpansZero(v) == v.kind = "interval" /\ ~is_empty(v) /\ v.low <= 0 /\ 0 <= v.high

Dividend(v) == v.kind = "num" \/ (v.kind = "interval" /\ ~is_empty(v))

\* the divider's run over the contents the cells hold now: its first run
\* when it is constructed, a further run once it is built
Divided == IF Unbuilt THEN divider(Now) ELSE alert(Now, 4, MaxDepth)

\* C23: when the divisor cell b holds an interval that spans zero
\* (low <= 0 <= high) and the dividend cell a holds a number or an interval,
\* the division yields Nothing and a run of the divider leaves the output
\* cell total as it was.
C23_ZeroSpanningDivisorGivesNothing ==
    tpc = "divider" =>
        ((SpansZero(base_layer_value(cell_content["b"]))
            /\ Dividend(base_layer_value(cell_content["a"]))) =>
            /\ divide_base(base_layer_value(cell_content["a"]),
                           base_layer_value(cell_content["b"])) = Nothing
            /\ Divided.exc = "none"
            /\ Divided.content["total"] = cell_content["total"])

-----------------------------------------------------------------------------
(* Claims about the support of an arithmetic result, under SpecGeneric *)

HasSupport(x) == (x.kind = "ld" /\ x.hasSupport) \/ x.kind = "vs"

BaseOf(x) == IF x.kind = "vs" THEN x.value ELSE x.base

Applied(generic_name) ==
    tpc = "generic" /\ mres # Unset /\ last.op = generic_name
        /\ HasSupport(mx) /\ HasSupport(my)

\* the support an operand of an addition brings to the result
Contributed(x) == IF BaseOf(x) = Num(0) THEN {} ELSE x.support

\* C28: the result of generic add and of generic subtract on two supported
\* operands carries a support, the union of the supports of the operands
\* whose base value is not 0; it is empty when both are 0.
C28_AddSupportSkipsZeroOperands ==
    (Applied("add") \/ Applied("subtract")) =>
        (HasSupport(mres) /\ mres.support = Contributed(mx) \cup Contributed(my))

\* C29: the result of generic multiply on two supported operands carries a
\* support: the support of an operand whose base value is 0 when there is
\* one, the union of both supports when there is none.
C29_MultiplySupportOfZeroOperand ==
    Applied("multiply") =>
        /\ HasSupport(mres)
        /\ IF BaseOf(mx) = Num(0) \/ BaseOf(my) = Num(0)
           THEN \/ BaseOf(mx) = Num(0) /\ mres.support = mx.support
                \/ BaseOf(my) = Num(0) /\ mres.support = my.support
           ELSE mres.support = mx.support \cup my.support

\* C30: the result of generic divide on two supported operands carries a
\* support that includes the support of the divisor, whatever the dividend.
C30_DivideSupportIncludesDivisor ==
    Applied("divide") => (HasSupport(mres) /\ my.support \subseteq mres.support)

-----------------------------------------------------------------------------
(* Claims about subsumption, under SpecMerge *)

\* C31: when subsumes(mx, my) holds for two supported values without a
\* contradiction, the merge of the two base values is the base value of mx,
\* up to the tolerance of the interval merge, and the support of mx is a
\* subset of the support of my.
C31_SubsumesIsAtLeastAsInformative ==
    (tpc = "merge" /\ BothSupported /\ Consistent(mx) /\ Consistent(my)
        /\ subsumes(mx, my)) =>
        /\ SameValue(MergedBase, mx.value, Tolerance - 1)
        /\ is_subset(mx.support, my.support)

-----------------------------------------------------------------------------
(* Claims about strongest_consequence, under SpecTms *)

\* every premise of the support of an entry is in the current worldview
FullyBelieved(e) == \A p \in e.support : p \in worldview

\* the merge, from Nothing on, of the fully believed ones of the first n
\* entries, in their order; an exception ends it
RECURSIVE FoldBelieved(_)
FoldBelieved(n) ==
    IF n = 0 THEN Nothing
    ELSE IF IsError(FoldBelieved(n - 1)) THEN FoldBelieved(n - 1)
    ELSE IF FullyBelieved(tmsl.items[n]) THEN merge(FoldBelieved(n - 1), tmsl.items[n])
    ELSE FoldBelieved(n - 1)

\* the entries without the i-th
Without(i) == List(SubSeq(tmsl.items, 1, i - 1) \o SubSeq(tmsl.items, i + 1, Len(tmsl.items)))

\* C32: strongest_consequence of the entries of the TMS is the merge, from
\* Nothing on, of the entries whose support is fully believed in the current
\* worldview: Nothing when there is none, and the same with and without an
\* entry that has a disbelieved premise.
C32_StrongestConsequenceFoldsBelieved ==
    tpc = "tms" =>
        /\ strongest_consequence(worldview, tmsl) = FoldBelieved(Len(tmsl.items))
        /\ (\A i \in 1..Len(tmsl.items) : ~FullyBelieved(tmsl.items[i])) =>
                strongest_consequence(worldview, tmsl) = Nothing
        /\ \A i \in 1..Len(tmsl.items) :
                ~FullyBelieved(tmsl.items[i]) =>
                    strongest_consequence(worldview, Without(i)) =
                        strongest_consequence(worldview, tmsl)

C32_Witness ==
    /\ tpc = "tms"
    /\ \E i, j \in 1..Len(tmsl.items) :
            /\ FullyBelieved(tmsl.items[i])
            /\ ~FullyBelieved(tmsl.items[j])
            /\ strongest_consequence(worldview, tmsl) = tmsl.items[i]
            /\ merge(tmsl.items[i], tmsl.items[j]) # tmsl.items[i]

\* C33: when two fully believed entries of the TMS have base values whose
\* merge is a contradiction, strongest_consequence raises or returns a
\* result that contradictory() recognises, never a supported value.
C33_ContradictionSurfaces ==
    (tpc = "tms"
        /\ \E i, j \in 1..Len(tmsl.items) :
              /\ FullyBelieved(tmsl.items[i]) /\ FullyBelieved(tmsl.items[j])
              /\ contradictory(merge(tmsl.items[i].value, tmsl.items[j].value))) =>
        \/ IsError(strongest_consequence(worldview, tmsl))
        \/ contradictory(strongest_consequence(worldview, tmsl))

-----------------------------------------------------------------------------
(* Claims about the merge of a TMS, under SpecMerge *)

\* the entries a merge operand stands for: those of a TMS, a supported value
\* itself, a raw value with the empty support
EntriesOf(x) ==
    CASE x.kind = "tms" -> x.values.items
      [] x.kind = "vs" -> <<x>>
      [] OTHER -> <<supported(x, {})>>

\* e is one of the entries or is subsumed by one of them
Covered(entries, e) ==
    \E i \in 1..Len(entries) : entries[i] = e \/ subsumes(entries[i], e)

AllCovered(entries, es) == \A i \in 1..Len(es) : Covered(entries, es[i])

\* C34: the merge of a TMS mx with my, a TMS or a single supported or raw
\* value, is a TMS; each entry of mx and of my is among its entries or
\* subsumed by one of them, and so is the strongest consequence of the
\* entries of both under the current worldview.
C34_TmsMergeKeepsEveryEntry ==
    (Merged /\ mx.kind = "tms" /\ my.kind \in {"tms", "vs", "num", "interval"}
        /\ Consistent(my)) =>
        /\ mres.v.kind = "tms"
        /\ AllCovered(mres.v.values.items, EntriesOf(mx))
        /\ AllCovered(mres.v.values.items, EntriesOf(my))
        /\ strongest_consequence(worldview, List(EntriesOf(mx) \o EntriesOf(my))).kind = "vs" =>
                Covered(mres.v.values.items,
                        strongest_consequence(worldview, List(EntriesOf(mx) \o EntriesOf(my))))

-----------------------------------------------------------------------------
(* Claims about flattening, under SpecFlatten *)

\* the innermost base of a nested layered datum
RECURSIVE Innermost(_)
Innermost(x) == IF x.kind = "ld" THEN Innermost(x.base) ELSE x

\* some level of x carries a support layer
RECURSIVE AnySupport(_)
AnySupport(x) == x.kind = "ld" /\ (x.hasSupport \/ AnySupport(x.base))

\* the union of the supports of all levels of x
RECURSIVE AllSupports(_)
AllSupports(x) == IF x.kind = "ld" THEN x.support \cup AllSupports(x.base) ELSE {}

\* what flattening mx is to give
Flattened ==
    /\ mres.kind = "ld"
    /\ mres.base = Innermost(mx)
    /\ mres.hasSupport = AnySupport(mx)
    /\ mres.support = AllSupports(mx)
    /\ Levels(mx) = 1 => mres = mx
    /\ flatten_layered_datum(mres, 0) = mres

\* C35 as stated: flatten_layered_datum of a layered datum nested to any depth is a
\* layered datum over the innermost base, which is not layered, with the
\* union of the supports of all levels as its support; a datum that is not
\* nested is returned as it is, and flattening the result again changes
\* nothing.
C35_FlattenReachesInnermostBase ==
    (tpc = "flatten" /\ mres # Unset /\ mx.kind = "ld") => Flattened

\* C35, amended: the same for a layered datum of at most max_depth + 1
\* levels, which is as far as the recursion of flatten_layered_datum goes.
C35_FlattenWithinMaxDepth ==
    (tpc = "flatten" /\ mres # Unset /\ mx.kind = "ld"
        /\ Levels(mx) <= max_depth + 1) => Flattened

C35_Witness ==
    /\ tpc = "flatten" /\ mres # Unset
    /\ Levels(mx) = max_depth + 1
    /\ mx.hasSupport /\ mx.support = {"P1"}
    /\ AllSupports(mx.base) = {"P2"}
    /\ mres = LayeredSupport(Num(0), {"P1", "P2"})

-----------------------------------------------------------------------------
(* Claims about new_neighbor, under SpecNeighbor *)

\* how often p is in a list of neighbors
Occurrences(list, p) == Cardinality({i \in 1..Len(list) : list[i] = p})

\* every cell holds each propagator at most once, and one more
\* new_neighbor(p) leaves p in the list exactly once, keeps every neighbor
\* the cell has, and is the same done twice
RegisteredOnce ==
    \A c \in Cells :
        \A p \in NeighborPropagators :
            /\ Occurrences(neighbors[c], p) <= 1
            /\ Occurrences(new_neighbor(Now, c, p).neighbors[c], p) = 1
            /\ SubSeq(new_neighbor(Now, c, p).neighbors[c], 1, Len(neighbors[c])) = neighbors[c]
            /\ new_neighbor(new_neighbor(Now, c, p), c, p) = new_neighbor(Now, c, p)

\* no step takes a neighbor away from a cell
NeighborsGrow ==
    \A c \in Cells :
        \A p \in NeighborPropagators :
            Occurrences(neighbors[c], p) <= Occurrences(neighbors'[c], p)

\* C36: new_neighbor(p) is idempotent: however often p registers with a
\* cell, the cell's list of neighbors holds p exactly once, so that
\* alert_propagators, which goes through the list once, alerts p once for a
\* change of the cell; and no step removes a neighbor.
C36_NewNeighborIdempotent ==
    [](tpc = "neighbor" => RegisteredOnce) /\ [][tpc = "neighbor" => NeighborsGrow]_vars

C36_Witness ==
    /\ tpc = "neighbor"
    /\ last.op = "new_neighbor"
    /\ neighbors[last.cell] = <<4, 1>>

-----------------------------------------------------------------------------
(* Claims about what a failure in a cascade leaves behind, under Spec *)

\* the network when the i-th neighbor of cell c is about to run, after
\* add_content has stored value in c and the neighbors before it have run
BeforeNeighbor(c, value, i) ==
    alert_propagators(Stored(c, value), SubSeq(neighbors[c], 1, i - 1), MaxDepth - 1)

\* a number or an interval old is still there in new, as it was or made
\* more specific by a later merge
StillHolds(old, new) ==
    old.kind \in {"num", "interval"} => (new = old \/ Within(base_layer_value(new), old, 0))

\* the i-th neighbor of c fails at st, on the way of the call that ends in
\* r, with a contradiction on its output: its run leaves every cell with
\* the content it has at st, the call returns without an exception, and the
\* numbers and intervals the cells hold at st are still there at the end
NoRollback(st, r, c, i) ==
    operation(st, neighbors[c][i], MaxDepth - 1).exc = "ValueError" =>
        /\ alert_propagator(st, neighbors[c][i], MaxDepth - 1).content = st.content
        /\ r.exc = "none"
        /\ \A k \in Cells : StillHolds(st.content[k], r.content[k])

\* C37: add_content stores a content in cell c and a neighbor fired by the
\* change fails to write a contradicting value: the failed run changes no
\* cell, so c keeps the new content, the cell written to keeps its content
\* and the cells updated earlier in the cascade keep their updates; the call
\* returns, and no number or interval held then has been taken back.
C37_NoRollbackInCascade ==
    tpc = "net" =>
        \A c \in Cells, v \in NetInputs :
            add_content_decision(cell_content[c], v).act = "store" =>
                LET r == add_content(Now, c, v, MaxDepth)
                IN  \A i \in 1..Len(neighbors[c]) :
                        LET st == BeforeNeighbor(c, add_content_decision(cell_content[c], v).v, i)
                        IN  NoRollback(st, r, c, i)

\* the last call stored a content and returned although a neighbor of the
\* cell cannot write its output, which holds a content of its own
C37_Witness ==
    /\ tpc = "net"
    /\ last.op = "add_content"
    /\ raised = "none"
    /\ cell_content[last.cell].kind = "num"
    /\ \E i \in 1..Len(neighbors[last.cell]) :
            /\ operation(Now, neighbors[last.cell][i], MaxDepth).exc = "ValueError"
            /\ Propagators[neighbors[last.cell][i]].cells[3] # last.cell
            /\ cell_content[Propagators[neighbors[last.cell][i]].cells[3]].kind = "num"

-----------------------------------------------------------------------------
(* Claims about the order of the alerts, under SpecOrder *)

\* the orders the propagators constructed so far can be alerted in
Orders ==
    {o \in UNION {[1..n -> SumPropagators] : n \in 0..3} :
        /\ Len(o) = Len(ever)
        /\ \A i \in 1..Len(ever) : \E k \in 1..Len(o) : o[k] = ever[i]}

\* the network with every cell's neighbors in the order o
Reordered(o) == [Now EXCEPT !.neighbors = [c \in Cells |-> o]]

\* no propagator has anything to add: its run changes no cell
AtRest == \A i \in 1..Len(ever) : alert(Now, ever[i], MaxDepth).content = cell_content

\* the call returns: no contradiction reaches the caller
ReturnsNormally(r) == r.exc = "none"

\* the call ends without a contradiction raised or caught on the way
Smooth(r) == r.exc = "none" /\ r.caught = 0

\* the two calls end with the same contents when both return
SameOutcome(r1, r2) == (ReturnsNormally(r1) /\ ReturnsNormally(r2)) => r1.content = r2.content

\* C38: an add_content call that raises no contradiction ends with the same
\* contents in all cells whatever the order in which the neighbors of a cell
\* are alerted.  This holds of every state of the network, at rest or not,
\* and of every call that returns, whether or not a propagator's
\* contradiction was caught and printed on the way; the claim's case, a
\* network at rest and a call that meets no contradiction at all, is part of
\* it.
C38_FiringOrderIsDontCare ==
    tpc = "order" =>
        \A c \in Cells, v \in OrderInputs :
            LET r == add_content(Now, c, v, MaxDepth)
            IN  \A o \in Orders : SameOutcome(r, add_content(Reordered(o), c, v, MaxDepth))

\* a network at rest with two propagators, where a call that meets no
\* contradiction stores its value and alerts both, and where another order
\* of the neighbors exists
C38_Witness ==
    /\ tpc = "order"
    /\ AtRest
    /\ \E c \in Cells, v \in OrderInputs :
          LET r == add_content(Now, c, v, MaxDepth)
          IN  /\ Smooth(r)
              /\ r.content[c] = v
              /\ cell_content[c] # v
              /\ r.alerts >= 2
              /\ \E o \in Orders :
                    /\ o # neighbors[c]
                    /\ Smooth(add_content(Reordered(o), c, v, MaxDepth))

-----------------------------------------------------------------------------
(* Claims about firing again at a fixed point, under SpecRefire *)

WorldviewCalls == {"kick_out", "bring_in"}

\* no run of a propagator ever alerted changes a cell, alone or one after
\* the other as alert_all_propagators runs them
FiringChangesNothing ==
    /\ \A i \in 1..Len(ever) : alert(Now, ever[i], MaxDepth).content = cell_content
    /\ alert_all_propagators(Now).content = cell_content

\* C39: once the calls made so far have returned, the network is at a
\* fixed point: alerting any propagator again changes no cell, and
\* kick_out(P) and bring_in(P), which alert every propagator again, leave
\* every cell's stored content as it was, values supported by P included;
\* only what tms_query answers for them changes.
C39_RefiringChangesNoCell ==
    /\ [](tpc = "refire" => FiringChangesNothing)
    /\ [][(tpc = "refire" /\ last'.op \in WorldviewCalls) =>
            cell_content' = cell_content]_vars

\* kick_out(P) has just run two propagators or more again; a cell still
\* holds its value supported by P, for which tms_query now answers Nothing
C39_Witness ==
    /\ tpc = "refire"
    /\ last.op = "kick_out"
    /\ Len(ever) >= 2
    /\ alerts >= 2
    /\ last.cell \notin worldview
    /\ \E c \in Cells :
            /\ SupportedBy(cell_content[c], last.cell)
            /\ ScalarOf(cell_content[c].value).kind = "num"
            /\ tms_query(worldview, cell_content[c]) = Nothing

-----------------------------------------------------------------------------
(* Claims about a network with cycles, under SpecCycle *)

\* a number, bare or as the base of a layered datum
HoldsScalar(x) == Scalar(ScalarOf(x))

\* the cell goes from Nothing to a number, or stays as it is
ChangesOnceToScalar(c) ==
    cell_content'[c] # cell_content[c] =>
        cell_content[c] = Nothing /\ HoldsScalar(cell_content'[c])

\* C40: in the network of a sum constraint and a product constraint over
\* the same cells, given numbers only, no call runs into the limit of the
\* nesting of calls, and every change of a cell's content is from Nothing
\* to a number.
C40_CyclicCascadeTerminates ==
    /\ [](tpc = "cycle" => raised # "RecursionError")
    /\ [][tpc = "cycle" => \A c \in Cells : ChangesOnceToScalar(c)]_vars

=============================================================================
